---- MODULE Spec2Model ----
(***************************************************************************)
(* Model of the hllrcon RCON client: one header-correlated protocol        *)
(* session (RconProtocol, src/hllrcon/protocol/protocol.py) seen at the    *)
(* level of whole frames, its asyncio transport, the callers of execute()  *)
(* and the class-level request id counter it shares with the other         *)
(* sessions of the process; and the Rcon facade (src/hllrcon/rcon.py) with *)
(* the connection future it caches.                                        *)
(***************************************************************************)
EXTENDS Integers, Sequences, FiniteSets, TLC

(* ---------------------------- bounds ---------------------------------- *)
MaxCalls == 2           \* execute() calls made on the session
MaxFrames == 2          \* frames the server sends
MaxDisconnects == 2     \* disconnect() calls made on the session
MaxOtherRequests == 1   \* requests constructed by other sessions
MaxConnects == 2        \* connection attempts started by the facade
MaxRconDisconnects == 2 \* disconnect() calls made on the facade
MaxCallers == 3         \* callers submitting one operation each through the pool
MaxStreamFrames == 2    \* frames in the byte stream a server sends
MaxBodyLen == 2         \* bytes in the body of a frame of that stream
MaxTextLen == 2         \* characters in a body given to execute()
MaxOverlap == 2         \* execute() calls made on one stream session

Calls == 1..MaxCalls
Ids == 1..(MaxCalls + MaxOtherRequests)
Connects == 1..MaxConnects

(* ------------------------ program constants --------------------------- *)
\* max_workers of the pool
MaxWorkers == 2
\* Workers the pool constructs in all: one more than it may hold at once,
\* so that a worker it dropped can be replaced.
MaxWorkerObjs == MaxWorkers + 1
Workers == 1..MaxWorkerObjs
Callers == 1..MaxCallers
DO_ALLOW_CONCURRENT_REQUESTS == FALSE
DO_USE_REQUEST_HEADERS == TRUE
DO_POP_V1_XORKEY == TRUE

VARIABLES
    request_id_counter, \* RconRequest.__request_id_counter (class variable)
    nother,             \* requests constructed by other sessions so far
    ncalls,             \* execute() calls started so far
    pc,                 \* per call: "idle" | "awaiting" | "done"
    rid,                \* per call: request.request_id (0: none allocated)
    fut,                \* per call: state of its waiter future
    futId,              \* per call: request_id of the packet set as result
    outcome,            \* per call: what the caller of execute() observed
    got,                \* per call: request_id of the response returned
    transport,          \* self._transport is not None
    tstate,             \* state of the asyncio transport
    texc,               \* connection_lost() will be given an exception
    seen_v1_xorkey,     \* self._seen_v1_xorkey
    buffer,             \* self._buffer, as a sequence of frames
    waiters,            \* self._waiters, request_id -> call
    wire,               \* what the server has sent and is not yet read
    rerr,               \* exception raised out of data_received
    lostHook,           \* invocations of on_connection_lost
    ndisc,              \* disconnect() calls made
    closeCalls,         \* transport.close() calls made by disconnect()
    nframes,            \* frames sent by the server so far
    rcon_connection,    \* Rcon._connection: "None" | "pending" | "result"
    rcon_held,          \* the attempt whose connection is its result (0: none)
    rcon_v2_version,    \* Rcon._v2_version: "unset" | "v1" | "v2"
    nconnects,          \* connection attempts started by _get_connection
    conn_pc,            \* per attempt: "idle" | "connecting" | "done"
    conn_kind,          \* per attempt: "v1" (RconConnection) | "v2" (AsyncHLLRconV2)
    conn_state,         \* per attempt, its connection: "none" | "open" | "closed"
    conn_closes,        \* per attempt: close()/disconnect() calls on its connection
    rcon_ndisc,         \* Rcon.disconnect() calls made
    rcon_ret            \* how the last _get_connection() call went on

callVars == <<request_id_counter, nother, ncalls, pc, rid, fut, futId, outcome, got>>
sessVars == <<transport, tstate, texc, seen_v1_xorkey, buffer, waiters, rerr,
              lostHook, closeCalls>>
envVars == <<wire, ndisc, nframes>>
rconVars == <<rcon_connection, rcon_held, rcon_v2_version, nconnects, conn_pc,
              conn_kind, conn_state, conn_closes, rcon_ndisc, rcon_ret>>

\* The cipher taken alone: one key, one message and one offset, and what the
\* program's XOR gives when applied once and when applied to its own output.
VARIABLES
    x_impl,             \* whose XOR: "protocol" (RconProtocol) | "v2" (AsyncHLLRconV2)
    x_key,              \* the key installed (<<>>: none, or empty)
    x_msg,              \* the bytes given
    x_off,              \* the offset given
    x_pc,               \* "idle" | "input" | "once" | "twice"
    x_once,             \* the output of the first application
    x_twice             \* the output of the second application

xorVars == <<x_impl, x_key, x_msg, x_off, x_pc, x_once, x_twice>>

\* The handshake of one session at the level of bytes: connect() from the
\* point where the TCP connection exists, and one command after it.
VARIABLES
    a_impl,             \* "protocol" (RconProtocol) | "v2" (AsyncHLLRconV2)
    xorkey,             \* self.xorkey / self.xor_key (<<>>: None or empty)
    xorkey_sets,        \* assignments made to it since __init__
    auth_token,         \* self.auth_token (<<>>: None)
    auth_token_sets,    \* assignments made to it since __init__
    auth_pc,            \* "idle" | "wait_sc" | "wait_login" | "done" |
                        \* "wait_cmd" | "cmd_done" | "failed"
    auth_err,           \* the exception that left connect(), or "none"
    auth_rid,           \* request_id of the request awaited (0: none)
    auth_sent,          \* the requests written, with their bytes
    auth_rcvd,          \* the frames read, with what the reader made of them
    cmd_result          \* what execute() of the command gave its caller

authVars == <<a_impl, xorkey, xorkey_sets, auth_token, auth_token_sets, auth_pc,
              auth_err, auth_rid, auth_sent, auth_rcvd, cmd_result>>
cipherVars == <<xorVars, authVars>>

\* The pool of workers: PooledRconWorker objects, the pool's list of them,
\* and the callers that run one operation each through the pool.
\*   workers       pool._workers, as a set of worker ids
\*   made          workers constructed so far (their ids are 1..made)
\*   busy          per worker: worker._busy
\*   disconnected  per worker: worker._disconnected
\*   connection    per worker: worker._connection: "None" | "pending" |
\*                 "result" | "exception" | "cancelled"
\*   attempt       per worker, the connect it started: "none" | "running" |
\*                 "done"
\*   sess          per worker, the session that connect built: "none" |
\*                 "open" | "closed"
\*   kind          per worker: "v1" (RconConnection) | "v2" (AsyncHLLRconV2) |
\*                 "none"
\*   ver           per caller: the version argument of its execute: "v1" |
\*                 "v2" | "none"
\*   pc            per caller: "idle" | "waiting" | "connecting" |
\*                 "executing" | "done"
\*   worker        per caller: the worker the caller was given (0: none)
VARIABLES pool

poolVars == <<pool>>

\* The command surface: one call of one operation of RconCommands.
\*   call     the operation called (a record of Operations) or NoOp
\*   version  the version argument of the call
\*   status   the status the server gives to an execute of the call
\*   pc       "idle" | "called" | "done"
\*   out      how the call ended: "none" | "True" | "False" | "returned" |
\*            an exception's name
\*   execs    the commands handed to self.execute, in order
VARIABLES opcall

\* The inbound byte stream of one session, delivered in chunks of bytes.
\*   stream     every byte the server sends on the connection
\*   pos        bytes of the stream given to data_received so far
\*   seen       self._seen_v1_xorkey
\*   buffer     self._buffer, as a sequence of bytes
\*   delivered  the packets the read loop handed out, in order
\*   discarded  the bytes data[4:] has cut off so far
VARIABLES inbound

\* One execute(command, version, body) call on the facade or on a worker,
\* followed down to the request its session writes.
\*   via      "Rcon" | "worker": the object the call is made on
\*   command  the command name given by the caller
\*   version  the version argument of the call
\*   body     the body given by the caller: [type |-> "str" | "dict", val]
\*   pc       "idle" | "called" | "done"
\*   out      how the call went: "none" | "sent" | an exception's name
\*   sent     the requests written, as records [name, body]
VARIABLES handoff

\* One AsyncHLLRconV2 session used by several execute() calls of the facade.
\*   sent     the callers whose requests were written, in order
\*   fed      how many reads' worth of data the server has sent: the header of
\*            a response and its body are fed one after the other
\*   rbuf     the StreamReader's buffer, as [kind |-> "header" | "body",
\*            of |-> the caller whose request the response answers]
\*   waiter   the caller the StreamReader's _waiter future belongs to (0: None)
\*   pc       per caller: "idle" | "wait_header" | "woken_header" |
\*            "wait_body" | "woken_body" | "done"
\*   hdr      per caller: whose response the header it read belongs to
\*   got      per caller: whose response the body it read belongs to
\*   out      per caller: "none" | "returned" | an exception's name
VARIABLES v2sess

opVars == <<opcall>>
chunkVars == <<inbound>>
delegVars == <<handoff, v2sess>>
surfaceVars == <<opVars, chunkVars, delegVars>>
layerVars == <<poolVars, surfaceVars>>
vars == <<callVars, sessVars, envVars, rconVars, cipherVars, layerVars>>

(* ----------------------------- frames --------------------------------- *)
\* The 4-byte blob the server emits before any framed data.
KeyBlob == [kind |-> "key", id |-> 0, ok |-> TRUE]
\* A complete frame: header id and whether the JSON payload unpacks.
Frame(i, good) == [kind |-> "frame", id |-> i, ok |-> good]

\* dict helpers for self._waiters
DictPop(d, k) == [i \in (DOMAIN d) \ {k} |-> d[i]]
DictSet(d, k, v) == [i \in (DOMAIN d) \cup {k} |-> IF i = k THEN v ELSE d[i]]
EmptyDict == [i \in {} |-> 0]

(* --------------------------- initial state ----------------------------- *)
\* State after RconProtocol.__init__: no transport yet, empty buffer, empty
\* waiter table; the server side of the connection has queued its key blob.
\* State after Rcon.__init__: no cached connection future.
InitSession ==
    /\ request_id_counter = 1
    /\ nother = 0
    /\ ncalls = 0
    /\ pc = [c \in Calls |-> "idle"]
    /\ rid = [c \in Calls |-> 0]
    /\ fut = [c \in Calls |-> "none"]
    /\ futId = [c \in Calls |-> 0]
    /\ outcome = [c \in Calls |-> "none"]
    /\ got = [c \in Calls |-> 0]
    /\ transport = FALSE
    /\ tstate = "new"
    /\ texc = FALSE
    /\ seen_v1_xorkey = FALSE
    /\ buffer = <<>>
    /\ waiters = EmptyDict
    /\ wire = <<KeyBlob>>
    /\ rerr = "none"
    /\ lostHook = 0
    /\ ndisc = 0
    /\ closeCalls = 0
    /\ nframes = 0
    /\ rcon_connection = "None"
    /\ rcon_held = 0
    /\ rcon_v2_version = "unset"
    /\ nconnects = 0
    /\ conn_pc = [k \in Connects |-> "idle"]
    /\ conn_kind = [k \in Connects |-> "none"]
    /\ conn_state = [k \in Connects |-> "none"]
    /\ conn_closes = [k \in Connects |-> 0]
    /\ rcon_ndisc = 0
    /\ rcon_ret = [kind |-> "none", k |-> 0]

\* No bytes are being ciphered.
InitXorIdle ==
    /\ x_impl = "protocol"
    /\ x_key = <<>>
    /\ x_msg = <<>>
    /\ x_off = 0
    /\ x_pc = "idle"
    /\ x_once = <<>>
    /\ x_twice = <<>>

\* State of the key and the token after __init__, before connect() has
\* sent anything.
InitAuthIdle ==
    /\ xorkey = <<>>
    /\ xorkey_sets = 0
    /\ auth_token = <<>>
    /\ auth_token_sets = 0
    /\ auth_pc = "idle"
    /\ auth_err = "none"
    /\ auth_rid = 0
    /\ auth_sent = <<>>
    /\ auth_rcvd = <<>>
    /\ cmd_result = [kind |-> "none", status |-> 0]

\* PooledRconWorker.__init__ for every worker, an empty pool, idle callers.
InitPool ==
    pool = [workers |-> {},
            made |-> 0,
            busy |-> [w \in Workers |-> FALSE],
            disconnected |-> [w \in Workers |-> FALSE],
            connection |-> [w \in Workers |-> "None"],
            attempt |-> [w \in Workers |-> "none"],
            sess |-> [w \in Workers |-> "none"],
            kind |-> [w \in Workers |-> "none"],
            ver |-> [p \in Callers |-> "none"],
            pc |-> [p \in Callers |-> "idle"],
            worker |-> [p \in Callers |-> 0]]
\* No pool is constructed.
InitPoolIdle == pool = [workers |-> {}]
\* No operation of the command surface is called.
InitOpsIdle == opcall = [pc |-> "idle"]
\* No byte stream is followed.
InitChunkIdle == inbound = [pos |-> 0]
\* No execute call is followed through the facade or a worker.
InitHandoffIdle == handoff = [pc |-> "idle"]
\* No stream session is shared by overlapping calls.
InitOverlapIdle == v2sess = [waiter |-> 0]
InitDelegIdle == InitHandoffIdle /\ InitOverlapIdle
InitSurfaceIdle == InitOpsIdle /\ InitChunkIdle /\ InitDelegIdle
InitLayersIdle == InitPoolIdle /\ InitSurfaceIdle

Init ==
    /\ InitSession
    /\ InitXorIdle
    /\ a_impl = "protocol"
    /\ InitAuthIdle
    /\ InitLayersIdle

(* ------------------------- asyncio transport --------------------------- *)
\* transport.close(): a no-op on a transport that is already closing;
\* otherwise the reader is removed and connection_lost(None) is scheduled,
\* at once when the write buffer is empty, after the flush when it is not.
TransportClose(st, unsent) ==
    IF st = "open" THEN (IF unsent THEN "flushing" ELSE "closing") ELSE st

(* ------------------------- request id counter -------------------------- *)
\* next(self.__request_id_counter): the id handed out, and the counter after.
NextRequestId(n) == n
AdvanceCounterStuck(n) == n
AdvanceCounter(n) == n + 1

\* Another session of the process constructs a request.
RconRequest_other ==
    /\ nother < MaxOtherRequests
    /\ nother' = nother + 1
    /\ request_id_counter' = AdvanceCounter(request_id_counter)
    /\ UNCHANGED <<ncalls, pc, rid, fut, futId, outcome, got, sessVars, envVars>>
    /\ UNCHANGED <<rconVars, cipherVars, layerVars>>

(* ------------------------------ reader --------------------------------- *)
\* self._waiters.pop(pkt_id, None): the key whose slot is taken (0: None).
WaiterKeyOldest(w, pkt_id) ==
    IF DOMAIN w = {} THEN 0
    ELSE CHOOSE k \in DOMAIN w : \A j \in DOMAIN w : k <= j
WaiterKey(w, pkt_id) == IF pkt_id \in DOMAIN w THEN pkt_id ELSE 0

\* _read_from_buffer over the state st = [buf, w, fut, fid, err].
RECURSIVE ReadFromBuffer(_)
ReadFromBuffer(st) ==
    IF st.buf = <<>> THEN st                    \* len(buffer) < header_len
    ELSE
      LET pkt == Head(st.buf) IN
      IF ~pkt.ok
      THEN [st EXCEPT !.err = "DecodeError"]    \* unpack raises, buffer kept
      ELSE
        LET st1 == [st EXCEPT !.buf = Tail(st.buf)]
            k == WaiterKey(st.w, pkt.id)
        IN  IF k # 0
            THEN LET c == st.w[k]
                     st2 == [st1 EXCEPT !.w = DictPop(st.w, k)]
                 IN  IF st.fut[c] = "pending"
                     THEN ReadFromBuffer([st2 EXCEPT !.fut[c] = "result",
                                                     !.fid[c] = pkt.id])
                     \* set_result on a done future
                     ELSE [st2 EXCEPT !.err = "InvalidStateError"]
            ELSE ReadFromBuffer(st1)            \* "No waiter for packet ID"

\* data[4:] on the first chunk.
StripV1Key(data) == IF Head(data) = KeyBlob THEN Tail(data) ELSE data

\* data_received(data), data being the first n items the server has sent.
\* An exception leaving data_received makes the transport fail: it is
\* force-closed and connection_lost(exc) is scheduled.
data_received(n) ==
    /\ tstate = "open"
    /\ n \in 1..Len(wire)
    /\ LET chunk == SubSeq(wire, 1, n)
           strip == DO_POP_V1_XORKEY /\ ~seen_v1_xorkey
           data == IF strip THEN StripV1Key(chunk) ELSE chunk
       IN
       /\ wire' = SubSeq(wire, n + 1, Len(wire))
       /\ seen_v1_xorkey' = TRUE
       /\ IF strip /\ data = <<>>
          THEN UNCHANGED <<buffer, waiters, fut, futId, rerr, tstate, texc>>
          ELSE LET r == ReadFromBuffer([buf |-> buffer \o data, w |-> waiters,
                                        fut |-> fut, fid |-> futId,
                                        err |-> "none"])
               IN /\ buffer' = r.buf
                  /\ waiters' = r.w
                  /\ fut' = r.fut
                  /\ futId' = r.fid
                  /\ rerr' = r.err
                  /\ IF r.err # "none"
                     THEN tstate' = "closing" /\ texc' = TRUE
                     ELSE UNCHANGED <<tstate, texc>>
    /\ UNCHANGED <<request_id_counter, nother, ncalls, pc, rid, outcome, got,
                   transport, lostHook, closeCalls, ndisc, nframes>>
    /\ UNCHANGED <<rconVars, cipherVars, layerVars>>

(* ------------------------ connection lifecycle ------------------------- *)
connection_made_reuse ==
    /\ tstate \in {"new", "closed"}
    /\ tstate' = "open"
    /\ transport' = TRUE
    /\ UNCHANGED <<callVars, texc, seen_v1_xorkey, buffer, waiters, rerr,
                   lostHook, closeCalls, envVars>>
    /\ UNCHANGED <<rconVars, cipherVars, layerVars>>
connection_made ==
    /\ tstate = "new"
    /\ tstate' = "open"
    /\ transport' = TRUE
    /\ UNCHANGED <<callVars, texc, seen_v1_xorkey, buffer, waiters, rerr,
                   lostHook, closeCalls, envVars>>
    /\ UNCHANGED <<rconVars, cipherVars, layerVars>>

\* What connection_lost(exc) does to one waiter.
LostFutureInverted(f, exc) ==
    IF exc THEN (IF f = "pending" THEN "cancelled" ELSE f)
    ELSE (IF f = "pending" THEN "exception" ELSE f)
LostFutureAlwaysError(f, exc) == IF f = "pending" THEN "exception" ELSE f
LostFuture(f, exc) ==
    IF exc THEN (IF f = "pending" THEN "exception" ELSE f)
    ELSE (IF f = "pending" THEN "cancelled" ELSE f)

\* The count of hook invocations after connection_lost() has run: the hook
\* is set and is called once, after the waiters are resolved.
InvokeHookInBranches(n) == n + 2
InvokeHook(n) == n + 1

\* connection_lost(exc), called once by the loop for a closing transport.
connection_lost ==
    /\ tstate = "closing"
    /\ tstate' = "closed"
    /\ transport' = FALSE
    /\ LET held == {waiters[k] : k \in DOMAIN waiters} IN
       fut' = [c \in Calls |-> IF c \in held THEN LostFuture(fut[c], texc)
                               ELSE fut[c]]
    /\ waiters' = EmptyDict
    /\ lostHook' = InvokeHook(lostHook)
    /\ UNCHANGED <<request_id_counter, nother, ncalls, pc, rid, futId, outcome,
                   got, texc, seen_v1_xorkey, buffer, rerr, closeCalls, envVars>>
    /\ UNCHANGED <<rconVars, cipherVars, layerVars>>

\* disconnect(); unsent tells whether the transport still holds bytes to write.
disconnect_unguarded(unsent) ==
    /\ ndisc < MaxDisconnects
    /\ ndisc' = ndisc + 1
    /\ tstate' = TransportClose(tstate, unsent)
    /\ closeCalls' = closeCalls + 1
    /\ transport' = FALSE
    /\ UNCHANGED <<callVars, texc, seen_v1_xorkey, buffer, waiters, rerr,
                   lostHook, wire, nframes>>
    /\ UNCHANGED <<rconVars, cipherVars, layerVars>>
disconnect(unsent) ==
    /\ ndisc < MaxDisconnects
    /\ ndisc' = ndisc + 1
    /\ IF transport
       THEN /\ tstate' = TransportClose(tstate, unsent)
            /\ closeCalls' = closeCalls + 1
            /\ transport' = FALSE
       ELSE UNCHANGED <<tstate, closeCalls, transport>>
    /\ UNCHANGED <<callVars, texc, seen_v1_xorkey, buffer, waiters, rerr,
                   lostHook, wire, nframes>>
    /\ UNCHANGED <<rconVars, cipherVars, layerVars>>

(* ------------------------------ execute -------------------------------- *)
\* asyncio.wait_for(waiter, timeout=self.timeout) has a deadline.
TimeoutConfiguredNone == FALSE
TimeoutConfigured == TRUE

\* self._waiters[request.request_id] = waiter, which execute() runs right
\* after transport.write(), with no await in between: the table as it is
\* when the loop may next run the reader.
RegisterWaiterLater(w, id, c) == w
RegisterWaiter(w, id, c) == DictSet(w, id, c)

\* execute() up to its await: the transport check, the request (which draws
\* the next id), the write, and the registration of the waiter.
execute_unchecked ==
    /\ ncalls < MaxCalls
    /\ LET c == ncalls + 1
           id == NextRequestId(request_id_counter)
       IN
       /\ ncalls' = c
       /\ request_id_counter' = AdvanceCounter(request_id_counter)
       /\ rid' = [rid EXCEPT ![c] = id]
       /\ fut' = [fut EXCEPT ![c] = "pending"]
       /\ waiters' = RegisterWaiter(waiters, id, c)
       /\ pc' = [pc EXCEPT ![c] = "awaiting"]
       /\ UNCHANGED outcome
    /\ UNCHANGED <<nother, futId, got, transport, tstate, texc, seen_v1_xorkey,
                   buffer, rerr, lostHook, closeCalls, envVars>>
    /\ UNCHANGED <<rconVars, cipherVars, layerVars>>
execute ==
    /\ ncalls < MaxCalls
    /\ LET c == ncalls + 1 IN
       /\ ncalls' = c
       /\ IF ~transport
          THEN /\ pc' = [pc EXCEPT ![c] = "done"]
               /\ outcome' = [outcome EXCEPT ![c] = "HLLConnectionError"]
               /\ UNCHANGED <<request_id_counter, rid, fut, waiters>>
          ELSE LET id == NextRequestId(request_id_counter) IN
               /\ request_id_counter' = AdvanceCounter(request_id_counter)
               /\ rid' = [rid EXCEPT ![c] = id]
               /\ fut' = [fut EXCEPT ![c] = "pending"]
               /\ waiters' = RegisterWaiter(waiters, id, c)
               /\ pc' = [pc EXCEPT ![c] = "awaiting"]
               /\ UNCHANGED outcome
    /\ UNCHANGED <<nother, futId, got, transport, tstate, texc, seen_v1_xorkey,
                   buffer, rerr, lostHook, closeCalls, envVars>>
    /\ UNCHANGED <<rconVars, cipherVars, layerVars>>

\* What the caller gets once its waiter is done.
FutureOutcome(f) ==
    CASE f = "result" -> "Response"
      [] f = "exception" -> "HLLConnectionLostError"
      [] f = "cancelled" -> "CancelledError"
      [] OTHER -> "none"

\* execute() from the point where wait_for returns or raises: on a result,
\* waiter.cancel() (no effect on a done future), the pop of the own id and
\* the return; on an exception nothing after the await runs.
execute_resume(c) ==
    /\ pc[c] = "awaiting"
    /\ fut[c] \in {"result", "exception", "cancelled"}
    /\ pc' = [pc EXCEPT ![c] = "done"]
    /\ outcome' = [outcome EXCEPT ![c] = FutureOutcome(fut[c])]
    /\ IF fut[c] = "result"
       THEN /\ got' = [got EXCEPT ![c] = futId[c]]
            /\ waiters' = DictPop(waiters, rid[c])
       ELSE UNCHANGED <<got, waiters>>
    /\ UNCHANGED <<request_id_counter, nother, ncalls, rid, fut, futId,
                   transport, tstate, texc, seen_v1_xorkey, buffer, rerr,
                   lostHook, closeCalls, envVars>>
    /\ UNCHANGED <<rconVars, cipherVars, layerVars>>

\* The deadline of wait_for passes: wait_for cancels the waiter and raises
\* TimeoutError out of execute(); the lines after the await do not run.
execute_timeout(c) ==
    /\ TimeoutConfigured
    /\ pc[c] = "awaiting"
    /\ fut[c] = "pending"
    /\ fut' = [fut EXCEPT ![c] = "cancelled"]
    /\ pc' = [pc EXCEPT ![c] = "done"]
    /\ outcome' = [outcome EXCEPT ![c] = "TimeoutError"]
    /\ UNCHANGED <<request_id_counter, nother, ncalls, rid, futId, got,
                   sessVars, envVars>>
    /\ UNCHANGED <<rconVars, cipherVars, layerVars>>

\* The caller's task is cancelled while execute() awaits an unresolved
\* waiter: wait_for cancels the waiter and CancelledError leaves execute();
\* the lines after the await do not run.
execute_cancel(c) ==
    /\ pc[c] = "awaiting"
    /\ fut[c] = "pending"
    /\ fut' = [fut EXCEPT ![c] = "cancelled"]
    /\ pc' = [pc EXCEPT ![c] = "done"]
    /\ outcome' = [outcome EXCEPT ![c] = "TaskCancelled"]
    /\ UNCHANGED <<request_id_counter, nother, ncalls, rid, futId, got,
                   sessVars, envVars>>
    /\ UNCHANGED <<rconVars, cipherVars, layerVars>>

(* ------------------------------ the peer ------------------------------- *)
\* Ids of the requests written on the session.
Written == {rid[c] : c \in {d \in Calls : rid[d] # 0}}

\* The server answers a request it has received, with a well-formed or a
\* malformed payload, in any order and possibly again.  Nothing is queued
\* behind an unread malformed frame: the session stops reading at it.
ServerReply(i, good) ==
    /\ tstate = "open"
    /\ nframes < MaxFrames
    /\ i \in Written
    /\ \A j \in 1..Len(wire) : wire[j].ok
    /\ wire' = Append(wire, Frame(i, good))
    /\ nframes' = nframes + 1
    /\ UNCHANGED <<callVars, sessVars, ndisc>>
    /\ UNCHANGED <<rconVars, cipherVars, layerVars>>

\* The peer closes its end: recv returns EOF, eof_received() returns None and
\* the transport closes itself.
PeerClose(unsent) ==
    /\ tstate = "open"
    /\ tstate' = TransportClose(tstate, unsent)
    /\ UNCHANGED <<callVars, transport, texc, seen_v1_xorkey, buffer, waiters,
                   rerr, lostHook, closeCalls, envVars>>
    /\ UNCHANGED <<rconVars, cipherVars, layerVars>>

\* A socket error (reset while reading, failure while writing).
PeerError ==
    /\ tstate \in {"open", "flushing"}
    /\ tstate' = "closing"
    /\ texc' = TRUE
    /\ UNCHANGED <<callVars, transport, seen_v1_xorkey, buffer, waiters,
                   rerr, lostHook, closeCalls, envVars>>
    /\ UNCHANGED <<rconVars, cipherVars, layerVars>>

\* The write buffer of a closed transport drains.
FlushDone ==
    /\ tstate = "flushing"
    /\ tstate' = "closing"
    /\ UNCHANGED <<callVars, transport, texc, seen_v1_xorkey, buffer, waiters,
                   rerr, lostHook, closeCalls, envVars>>
    /\ UNCHANGED <<rconVars, cipherVars, layerVars>>

Next ==
    \/ connection_made
    \/ execute
    \/ \E c \in Calls : execute_resume(c)
    \/ \E c \in Calls : execute_timeout(c)
    \/ \E c \in Calls : execute_cancel(c)
    \/ \E n \in 1..(MaxFrames + 1) : data_received(n)
    \/ connection_lost
    \/ \E unsent \in BOOLEAN : disconnect(unsent)
    \/ \E i \in Ids, good \in BOOLEAN : ServerReply(i, good)
    \/ \E unsent \in BOOLEAN : PeerClose(unsent)
    \/ PeerError
    \/ FlushDone

Spec == Init /\ [][Next]_vars

\* The session in a process where other sessions construct requests too and
\* so draw ids from the counter the class shares.
NextIds ==
    \/ RconRequest_other
    \/ connection_made
    \/ execute
    \/ \E c \in Calls : execute_resume(c)
    \/ \E c \in Calls : execute_timeout(c)
    \/ \E c \in Calls : execute_cancel(c)
    \/ \E n \in 1..(MaxFrames + 1) : data_received(n)
    \/ connection_lost
    \/ \E i \in Ids, good \in BOOLEAN : ServerReply(i, good)
    \/ \E unsent \in BOOLEAN : PeerClose(unsent)

SpecIds == Init /\ [][NextIds]_vars

TypeOK ==
    /\ request_id_counter \in 1..(MaxCalls + MaxOtherRequests + 1)
    /\ ncalls \in 0..MaxCalls
    /\ \A c \in Calls : pc[c] \in {"idle", "awaiting", "done"}

(* ======================= properties of the session ===================== *)
InFlight(c) == pc[c] = "awaiting" /\ fut[c] = "pending"

\* C1 (correlation): a caller of execute() that gets a response gets the one
\* whose request_id is the id of its own request, and the response of no
\* other request, whatever the order of the replies.
C1_Correlation ==
    /\ \A c \in Calls : fut[c] = "result" => futId[c] = rid[c]
    /\ \A c \in Calls : outcome[c] = "Response" =>
          /\ got[c] = rid[c]
          /\ \A d \in Calls \ {c} : got[c] # rid[d]

\* A later request has been answered and returned while an earlier one of
\* the same session is still in flight.
C1_Witness ==
    \E c, d \in Calls : c < d /\ InFlight(c) /\ outcome[d] = "Response"

\* C2 (uniqueness): no two in-flight requests of the session share a
\* request_id, and the slot registered under a live id is the slot of that
\* very request, also when other sessions draw ids from the shared counter.
C2_Uniqueness ==
    /\ \A c, d \in Calls : (c # d /\ pc[c] = "awaiting" /\ pc[d] = "awaiting")
                               => rid[c] # rid[d]
    /\ \A c \in Calls : InFlight(c) =>
          (rid[c] \in DOMAIN waiters /\ waiters[rid[c]] = c)
    /\ \A k \in DOMAIN waiters : rid[waiters[k]] = k

\* Two requests in flight whose ids are not consecutive because another
\* session drew the id between them.
C2_Witness ==
    \E c, d \in Calls : /\ InFlight(c) /\ InFlight(d)
                        /\ rid[d] = rid[c] + 2
                        /\ nother = 1

\* The step in which the loop calls connection_lost().
LostStep == tstate = "closing" /\ tstate' = "closed"

\* C3 as stated (fan-out on loss): whenever the connection is lost, not by a
\* disconnect() of the caller, every in-flight request gets ConnectionLost
\* and the pending table is empty afterwards.
C3_Original ==
    [][(LostStep /\ closeCalls = 0) =>
          /\ waiters' = EmptyDict
          /\ \A c \in Calls : InFlight(c) => fut'[c] = "exception"]_vars

\* C3 amended: when the connection is lost with an error, each of the k
\* in-flight requests gets ConnectionLost; when the loss is orderly (the
\* peer closed, no error) each of them is cancelled instead; slots that are
\* already done are left alone and the pending table is empty afterwards.
C3_FanOut ==
    [][LostStep =>
          /\ waiters' = EmptyDict
          /\ \A c \in Calls :
                fut'[c] = IF ~InFlight(c) THEN fut[c]
                          ELSE IF texc THEN "exception" ELSE "cancelled"
          /\ Cardinality({c \in Calls : fut[c] # fut'[c]})
               = Cardinality({c \in Calls : InFlight(c)})]_vars

\* The connection was lost with an error while two requests were in flight.
C3_Witness ==
    /\ tstate = "closed" /\ texc /\ closeCalls = 0 /\ waiters = EmptyDict
    /\ \E c, d \in Calls : c # d /\ fut[c] = "exception" /\ fut[d] = "exception"

\* C4: over the life of the session the on_connection_lost hook is invoked
\* exactly once, when the connection is lost, and never a second time,
\* whatever disconnect(), peer close and error events occur.
C4_HookOnce ==
    /\ lostHook <= 1
    /\ (tstate = "closed") <=> (lostHook = 1)

\* The hook has run once although an error and two disconnect() calls
\* happened on the session.
C4_Witness == lostHook = 1 /\ texc /\ ndisc = 2 /\ closeCalls = 1

\* A step in which execute() ends for call c with outcome o.
Ends(c, o) == outcome[c] = "none" /\ outcome'[c] = o

\* C6 as stated: when an execute() reaches its deadline its slot is removed
\* from the pending table, the caller gets a timeout error and the socket
\* stays open.
C6_TimeoutRemovesSlot ==
    [][\A c \in Calls : Ends(c, "TimeoutError") =>
          /\ rid[c] \notin DOMAIN waiters'
          /\ transport' = transport /\ tstate' = tstate]_vars

\* Ids whose execute() has timed out or been cancelled by its caller.
AbandonedIds ==
    {rid[c] : c \in {d \in Calls : outcome[d] \in {"TimeoutError", "TaskCancelled"}}}
\* The reader is given n items, all well-formed, one of them a reply to an
\* abandoned request.
ReadsLateReply(n) ==
    /\ tstate = "open" /\ n \in 1..Len(wire) /\ Len(wire') = Len(wire) - n
    /\ \A j \in 1..n : wire[j].ok
    /\ \E j \in 1..n : wire[j].kind = "frame" /\ wire[j].id \in AbandonedIds

\* C7 as stated: a reply to a request that has timed out or been cancelled
\* is dropped: the reader raises nothing, the socket stays open, and the
\* frames read with it are delivered to their waiters.
C7_LateReplyDropped ==
    [][\A n \in 1..(MaxFrames + 1) : ReadsLateReply(n) =>
          /\ rerr' = "none"
          /\ tstate' = "open"
          /\ \A j \in 1..n : \A c \in Calls :
                (wire[j].kind = "frame" /\ wire[j].id = rid[c] /\ InFlight(c))
                   => fut'[c] = "result"]_vars

\* C8 as stated: cancelling a caller's execute() while it awaits its
\* response removes the request_id of that call from the pending table.
C8_CancelDeregisters ==
    [][\A c \in Calls : Ends(c, "TaskCancelled") =>
          rid[c] \notin DOMAIN waiters']_vars

(* ------------------------------ liveness ------------------------------- *)
\* The event loop runs every callback that is ready and every timer that is
\* due: a resolved waiter resumes its execute(), a deadline of wait_for
\* fires, a closing transport gets its connection_lost().  Nothing is
\* assumed of the peer.  Each of these steps changes a variable of the
\* calls or of the session, which is what the subscript names.
Fairness ==
    /\ \A c \in Calls : WF_<<callVars, sessVars>>(execute_resume(c))
    /\ \A c \in Calls : WF_<<callVars, sessVars>>(execute_timeout(c))
    /\ WF_<<callVars, sessVars>>(connection_lost)

LiveSpec == Init /\ [][Next]_vars /\ Fairness

C9_Original ==
    [][closeCalls > 0 =>
          \A c \in Calls : InFlight(c) => fut'[c] # "exception"]_vars

\* C9 amended: disconnect() resolves no slot itself; it closes the
\* transport, and when the loop then calls connection_lost(None) every
\* pending slot is cancelled and the pending table is emptied.  A transport
\* that was open and had nothing left to write is closed without error; only
\* when the transport failed before the disconnect(), or fails while its
\* unsent bytes are flushed, do the slots get ConnectionLost.
C9_DisconnectCancels ==
    [][/\ (closeCalls' = closeCalls + 1) =>
            /\ fut' = fut /\ waiters' = waiters /\ ~transport'
            /\ (tstate = "open" /\ tstate' = "closing") => ~texc'
       /\ (tstate = "closing" /\ tstate' = "closing") => texc' = texc
       /\ (closeCalls > 0 /\ LostStep /\ ~texc) =>
            /\ waiters' = EmptyDict
            /\ \A c \in Calls : InFlight(c) => fut'[c] = "cancelled"
            /\ \A c \in Calls : fut'[c] = "exception" => fut[c] = "exception"
      ]_vars

\* disconnect() was called with two requests pending and both were cancelled.
C9_Witness ==
    /\ closeCalls = 1 /\ tstate = "closed" /\ ~texc /\ waiters = EmptyDict
    /\ \A c \in Calls : fut[c] = "cancelled" /\ pc[c] = "awaiting"

(* ============================ the facade =============================== *)
\* Rcon (src/hllrcon/rcon.py) caches one connection future.  A connection
\* object is either an AsyncHLLRconV2 ("v2") or a RconConnection ("v1").

\* The kind of connection _get_connection constructs.
\* Whether the cached connection object has the is_connected() method that
\* _get_connection calls on it: RconConnection has, AsyncHLLRconV2 has not.
HasIsConnected(kind) == kind = "v1"
KindFor(v2_version) == IF v2_version = "v2" THEN "v2" ELSE "v1"

\* _get_connection up to its first await.  v is the version the caller set
\* just before ("keep": wait_until_connected(), connect(); "v1"/"v2":
\* execute(command, version)).  With a cached result the call either returns
\* it, fails on it, or drops it because it is no longer connected; with no
\* cached future it starts attempt nconnects + 1; with a pending one it
\* awaits that future.
Rcon_get_connection(v) ==
    /\ nconnects < MaxConnects
    /\ LET ver == IF v = "keep" THEN rcon_v2_version ELSE v
           stale == /\ rcon_connection = "result"
                    /\ HasIsConnected(conn_kind[rcon_held])
                    /\ conn_state[rcon_held] # "open"
           k == nconnects + 1
       IN
       /\ rcon_v2_version' = ver
       /\ IF rcon_connection = "None" \/ stale
          THEN /\ nconnects' = k
               /\ rcon_connection' = "pending"
               /\ rcon_held' = 0
               /\ conn_pc' = [conn_pc EXCEPT ![k] = "connecting"]
               /\ conn_kind' = [conn_kind EXCEPT ![k] = KindFor(ver)]
               /\ rcon_ret' = [kind |-> "started", k |-> k]
          ELSE /\ UNCHANGED <<nconnects, rcon_connection, rcon_held, conn_pc,
                              conn_kind>>
               /\ rcon_ret' =
                     IF rcon_connection = "pending"
                     THEN [kind |-> "joined", k |-> 0]
                     ELSE IF ~HasIsConnected(conn_kind[rcon_held])
                          THEN [kind |-> "AttributeError", k |-> 0]
                          ELSE [kind |-> "returned", k |-> rcon_held]
    /\ UNCHANGED <<conn_state, conn_closes, rcon_ndisc>>
    /\ UNCHANGED <<callVars, sessVars, envVars, cipherVars, layerVars>>

\* How _get_connection ends for the caller that started a connect, given
\* what self._connection is by then: set_result / set_exception are called
\* on it, not on the future the attempt created.  On None they raise
\* AttributeError and on a future that is already done InvalidStateError,
\* inside the try and again inside the except handler, and that error is
\* what leaves _get_connection.
FinishOutcome(connection, ok) ==
    CASE connection = "pending" -> IF ok THEN "returned" ELSE "ConnectError"
      [] connection = "None" -> "AttributeError"
      [] connection = "result" -> "InvalidStateError"

\* _get_connection after its connect: attempt k succeeded (ok) or raised.
\* set_result / set_exception go to whatever self._connection is by now.
Rcon_connect_finish(k, ok) ==
    /\ conn_pc[k] = "connecting"
    /\ conn_pc' = [conn_pc EXCEPT ![k] = "done"]
    /\ conn_state' = [conn_state EXCEPT ![k] = IF ok THEN "open" ELSE "none"]
    /\ CASE FinishOutcome(rcon_connection, ok) = "returned" ->
              /\ rcon_connection' = "result"
              /\ rcon_held' = k
         [] FinishOutcome(rcon_connection, ok) = "ConnectError" ->
              /\ rcon_connection' = "None"
              /\ rcon_held' = 0
         [] OTHER ->
              \* AttributeError on None, InvalidStateError on a done future
              UNCHANGED <<rcon_connection, rcon_held>>
    /\ UNCHANGED <<rcon_v2_version, nconnects, conn_kind, conn_closes, rcon_ndisc,
                   rcon_ret>>
    /\ UNCHANGED <<callVars, sessVars, envVars, cipherVars, layerVars>>

\* The peer drops an established connection.
Conn_lost(k) ==
    /\ conn_state[k] = "open"
    /\ conn_state' = [conn_state EXCEPT ![k] = "closed"]
    /\ UNCHANGED <<rcon_connection, rcon_held, rcon_v2_version, nconnects,
                   conn_pc, conn_kind, conn_closes, rcon_ndisc, rcon_ret>>
    /\ UNCHANGED <<callVars, sessVars, envVars, cipherVars, layerVars>>

\* Rcon.disconnect(): close the cached connection, or cancel the pending
\* future, and forget the future.
Rcon_disconnect ==
    /\ rcon_ndisc < MaxRconDisconnects
    /\ rcon_ndisc' = rcon_ndisc + 1
    /\ IF rcon_connection = "result"
       THEN /\ conn_closes' = [conn_closes EXCEPT ![rcon_held] = @ + 1]
            /\ conn_state' = [conn_state EXCEPT ![rcon_held] = "closed"]
       ELSE UNCHANGED <<conn_closes, conn_state>>
    /\ rcon_connection' = "None"
    /\ rcon_held' = 0
    /\ UNCHANGED <<rcon_v2_version, nconnects, conn_pc, conn_kind, rcon_ret>>
    /\ UNCHANGED <<callVars, sessVars, envVars, cipherVars, layerVars>>

\* The facade together with a session that is opened, used, closed by its
\* caller or closed by the peer.
NextRcon ==
    \/ \E v \in {"keep", "v1", "v2"} : Rcon_get_connection(v)
    \/ \E k \in Connects, ok \in BOOLEAN : Rcon_connect_finish(k, ok)
    \/ \E k \in Connects : Conn_lost(k)
    \/ Rcon_disconnect
    \/ connection_made
    \/ execute
    \/ connection_lost
    \/ \E unsent \in BOOLEAN : disconnect(unsent)
    \/ \E unsent \in BOOLEAN : PeerClose(unsent)
    \/ FlushDone

SpecRcon == Init /\ [][NextRcon]_vars

\* C10 (idempotent disconnect): a disconnect() on a session whose transport
\* is gone changes no state of the session and closes nothing again; a
\* disconnect() on a facade that has been disconnected and holds no
\* connection future changes nothing of the facade or of its connections.
C10_IdempotentDisconnect ==
    [][/\ (ndisc' = ndisc + 1 /\ ~transport) =>
            UNCHANGED <<callVars, sessVars, wire, nframes>>
       /\ (rcon_ndisc' = rcon_ndisc + 1 /\ rcon_ndisc > 0
              /\ rcon_connection = "None") =>
            UNCHANGED <<rcon_connection, rcon_held, rcon_v2_version, nconnects,
                        conn_pc, conn_kind, conn_state, conn_closes>>
      ]_vars

\* Both the session and the facade have been disconnected twice, the first
\* call of each having closed a live connection.
C10_Witness ==
    /\ ndisc = 2 /\ closeCalls = 1 /\ ~transport
    /\ rcon_ndisc = 2 /\ rcon_connection = "None"
    /\ \E k \in Connects : conn_closes[k] = 1

(* ================== more properties of the session ===================== *)
\* The step in which call c enters execute().
Starts(c) == ncalls' = c /\ ncalls = c - 1

\* The session is lost (connection_lost() has run) or closed (disconnect()
\* has closed its transport).
LostOrClosed == tstate = "closed" \/ closeCalls > 0

\* C11 as stated: an execute() on a session that is lost or closed fails at
\* once with ConnectionLost, allocates no request_id and registers no slot.
C11_Original ==
    [][\A c \in Calls : (Starts(c) /\ LostOrClosed) =>
          /\ outcome'[c] = "HLLConnectionLostError"
          /\ rid'[c] = 0
          /\ request_id_counter' = request_id_counter
          /\ waiters' = waiters]_vars

\* C11 amended: an execute() on a session that is lost or closed fails at
\* once with HLLConnectionError ("Connection is closed"), the general
\* connection error and not ConnectionLost; it writes nothing, draws no
\* request_id and registers no slot.
C11_FailFast ==
    [][\A c \in Calls : (Starts(c) /\ LostOrClosed) =>
          /\ outcome'[c] = "HLLConnectionError" /\ pc'[c] = "done"
          /\ rid'[c] = 0 /\ fut'[c] = "none"
          /\ request_id_counter' = request_id_counter
          /\ waiters' = waiters
          /\ UNCHANGED <<sessVars, envVars>>]_vars

\* A request was made on the live session, the connection was then lost
\* with an error, and a later execute() failed fast.
C11_Witness ==
    /\ tstate = "closed" /\ texc /\ closeCalls = 0
    /\ \E c, d \in Calls : /\ c < d /\ rid[c] # 0
                           /\ outcome[d] = "HLLConnectionError" /\ rid[d] = 0

\* C12 as stated: in serial mode (concurrent requests not allowed) at most
\* one request of the session is written and still awaiting its response.
C12_SerialMode ==
    (~DO_ALLOW_CONCURRENT_REQUESTS) =>
        Cardinality({c \in Calls : InFlight(c)}) <= 1

(* ============================== the cipher ============================= *)
\* Bounds of the cipher's inputs.
MaxOffset == 2          \* offsets given to the XOR

\* Keys and messages tried: no key, one byte, a key shorter and a key longer
\* than most messages; the empty message, and messages that make the key wrap.
XorKeys == {<<>>, <<255>>, <<170, 85>>, <<1, 2, 3>>}
XorMessages == {<<>>, <<0>>, <<65, 255>>, <<7, 0, 128>>, <<1, 2, 3, 4, 5>>}

\* c ^ k on one bit, and on the 8 bits of a byte.
OrBit(a, b) == IF a + b > 0 THEN 1 ELSE 0
XorBit(a, b) == (a + b) % 2
RECURSIVE XorBits(_, _, _)
XorBits(a, b, n) ==
    IF n = 0 THEN 0
    ELSE XorBit(a % 2, b % 2) + 2 * XorBits(a \div 2, b \div 2, n - 1)
XorByte(a, b) == XorBits(a, b, 8)

\* RconProtocol._xor(message, offset) with self.xorkey = key: the message
\* itself when the key is None or empty.
Protocol_xor(key, message, offset) ==
    IF key = <<>> THEN message
    ELSE [i \in 1..Len(message) |->
            XorByte(message[i], key[((i - 1 + offset) % Len(key)) + 1])]

\* AsyncHLLRconV2._xor(data) with self.xor_key = key (it takes no offset).
V2_xor(key, data) ==
    [i \in 1..Len(data) |-> XorByte(data[i], key[((i - 1) % Len(key)) + 1])]

\* The use AsyncHLLRconV2 makes of its _xor in _send_request and
\* _receive_response: only `if self.xor_key`.
V2_cipher(key, data) == IF key # <<>> THEN V2_xor(key, data) ELSE data

\* What the chosen implementation makes of the bytes.
ApplyXor(impl, key, data, offset) ==
    IF impl = "protocol" THEN Protocol_xor(key, data, offset)
    ELSE V2_cipher(key, data)

\* Inputs: every key, message and offset of the bounds, for both
\* implementations (the one of AsyncHLLRconV2 has no offset).
InitXor ==
    /\ InitSession
    /\ x_impl \in {"protocol", "v2"}
    /\ x_key \in XorKeys
    /\ x_msg \in XorMessages
    /\ x_off \in 0..MaxOffset
    /\ x_impl = "v2" => x_off = 0
    /\ x_pc = "input"
    /\ x_once = <<>>
    /\ x_twice = <<>>
    /\ a_impl = "protocol"
    /\ InitAuthIdle
    /\ InitLayersIdle

\* The XOR is applied to the message.
Xor_once ==
    /\ x_pc = "input"
    /\ x_once' = ApplyXor(x_impl, x_key, x_msg, x_off)
    /\ x_pc' = "once"
    /\ UNCHANGED <<x_impl, x_key, x_msg, x_off, x_twice>>
    /\ UNCHANGED <<callVars, sessVars, envVars, rconVars, authVars,
                   layerVars>>

\* The XOR is applied to its own output, with the same key and offset.
Xor_twice ==
    /\ x_pc = "once"
    /\ x_twice' = ApplyXor(x_impl, x_key, x_once, x_off)
    /\ x_pc' = "twice"
    /\ UNCHANGED <<x_impl, x_key, x_msg, x_off, x_once>>
    /\ UNCHANGED <<callVars, sessVars, envVars, rconVars, authVars,
                   layerVars>>

NextXor == Xor_once \/ Xor_twice

SpecXor == InitXor /\ [][NextXor]_vars

\* C14 (round trip on XOR): for every key, message and offset the XOR
\* applied twice gives the message back, its output has the length of its
\* input, and with no key (absent or empty) the bytes pass unchanged.
C14_XorRoundTrip ==
    /\ x_pc \in {"once", "twice"} =>
          /\ Len(x_once) = Len(x_msg)
          /\ (x_key = <<>>) => x_once = x_msg
    /\ x_pc = "twice" => x_twice = x_msg

\* A message longer than the key, ciphered from a non-zero offset, came out
\* changed and came back.
C14_Witness ==
    /\ x_pc = "twice" /\ x_impl = "protocol" /\ x_off > 0
    /\ Len(x_key) > 1 /\ Len(x_msg) > Len(x_key)
    /\ x_once # x_msg /\ x_twice = x_msg

(* ============================ the handshake ============================ *)
\* struct.calcsize(HEADER_FORMAT)
HeaderLen == 8
\* RconResponseStatus
StatusCodes == {200, 400, 401, 500}
\* ContentBody values the server sends: for ServerConnect the base64 of a
\* key, for Login a token, for a command its result.
Contents == {1, 2, 3}
\* base64.b64decode(content_body) of the ServerConnect response.
KeyOf(c) == CASE c = 1 -> <<>> [] c = 2 -> <<255>> [] OTHER -> <<1, 2, 3>>

\* struct.pack / struct.unpack of one unsigned 32-bit integer, "<" little-
\* endian (HEADER_FORMAT) or "!" big-endian (AsyncHLLRconV2).
Pack32(endian, n) ==
    LET le == <<n % 256, (n \div 256) % 256, (n \div 65536) % 256,
                (n \div 16777216) % 256>>
    IN IF endian = "<" THEN le ELSE <<le[4], le[3], le[2], le[1]>>
\* Values from 2^31 up are all represented by 2^31 - 1: they are only ever
\* compared with the small ids and lengths of the model.
Unpack32(endian, b) ==
    LET le == IF endian = "<" THEN b ELSE <<b[4], b[3], b[2], b[1]>>
    IN IF le[4] >= 128 THEN 2147483647
       ELSE le[1] + 256 * le[2] + 65536 * le[3] + 16777216 * le[4]

\* The JSON body of a request, as bytes: AuthToken (a space when there is
\* none), Name, ContentBody.
NameCode(name) ==
    CASE name = "ServerConnect" -> 1 [] name = "Login" -> 2 [] OTHER -> 3
RequestBody(name, token, content) ==
    <<(IF token = <<>> THEN 32 ELSE token[1]), NameCode(name), content>>
\* The JSON body of a response, as bytes: statusCode, contentBody.
ResponseBody(status, content) == <<status \div 256, status % 256, content>>

\* RconRequest.pack(): header + body.
ProtocolPack(id, body) ==
    Pack32("<", id) \o Pack32("<", Len(body)) \o body

\* The bytes a session writes for a request: RconProtocol.execute ciphers
\* the packed frame, AsyncHLLRconV2._send_request ciphers the headerless body.
WireOut(impl, key, id, body) ==
    IF impl = "protocol" THEN Protocol_xor(key, ProtocolPack(id, body), 0)
    ELSE V2_cipher(key, body)

\* How the server puts a response on the wire.  cipher: "body" (header in
\* clear, body ciphered) or "frame" (header and body ciphered as one
\* stream); endian: byte order of its header.
ServerModes == [cipher : {"body", "frame"}, endian : {"<", "!"}]
ServerWire(mode, key, id, body) ==
    LET hdr == Pack32(mode.endian, id) \o Pack32(mode.endian, Len(body))
    IN IF mode.cipher = "frame" THEN Protocol_xor(key, hdr \o body, 0)
       ELSE hdr \o Protocol_xor(key, body, 0)

\* What the reader makes of the bytes raw while request `awaited` is
\* pending: _read_from_buffer (RconProtocol) or _receive_response
\* (AsyncHLLRconV2).  The header is unpacked from the bytes as received; the
\* body is deciphered and decoded.
ParseIn(impl, key, raw, awaited) ==
    LET e == IF impl = "protocol" THEN "<" ELSE "!"
        id == Unpack32(e, SubSeq(raw, 1, 4))
        len == Unpack32(e, SubSeq(raw, 5, 8))
        none == [state |-> "incomplete", id |-> id, body |-> <<>>]
    IN IF Len(raw) - HeaderLen < len THEN none
       ELSE LET bodyraw == SubSeq(raw, HeaderLen + 1, HeaderLen + len)
                body == IF impl = "protocol" THEN Protocol_xor(key, bodyraw, 0)
                        ELSE V2_cipher(key, bodyraw)
                bad == \/ Len(body) # 3
                       \/ /\ impl = "protocol"
                          /\ (body[1] * 256 + body[2]) \notin StatusCodes
            IN [state |-> IF bad THEN "DecodeError"
                          ELSE IF impl = "protocol" /\ id # awaited
                               THEN "no_waiter" ELSE "ok",
                id |-> id, body |-> body]

\* The exception a response of this status raises in the handshake and in
\* execute(): raise_for_status() in RconProtocol.authenticate, the status
\* test in AsyncHLLRconV2.
StatusError(impl, status) ==
    IF status = 200 THEN "none"
    ELSE IF impl = "protocol" THEN "HLLCommandError" ELSE "RconV2Error"
\* raise_for_status() called by the caller on a Response.
RaiseForStatus(status) == IF status # 200 THEN "HLLCommandError" ELSE "none"

\* `except HLLAuthError` in RconProtocol.connect: the errors of the
\* taxonomy are distinct kinds, so only HLLAuthError is caught.
CaughtAsAuthError(impl, e) == impl = "protocol" /\ e = "HLLAuthError"

callRest == <<nother, ncalls, pc, rid, fut, futId, outcome, got>>
sessRest == <<seen_v1_xorkey, buffer, waiters, rerr, lostHook>>

\* The record kept of a request written with key `key` installed.
SentRecord(name, key, id, body) ==
    [name |-> name, key |-> key, id |-> id, body |-> body,
     bytes |-> WireOut(a_impl, key, id, body)]
\* The id a new request gets: RconRequest draws one, AsyncHLLRconV2 has none.
RequestIdFor(impl) == IF impl = "protocol" THEN NextRequestId(request_id_counter) ELSE 0
CounterAfter(impl) ==
    IF impl = "protocol" THEN AdvanceCounter(request_id_counter)
    ELSE request_id_counter
\* The reader has consumed all it was sent (no frame is stuck in its buffer).
ReaderReady ==
    IF auth_rcvd = <<>> THEN TRUE ELSE auth_rcvd[Len(auth_rcvd)].state = "ok"
Awaiting == auth_pc \in {"wait_sc", "wait_login", "wait_cmd"}
\* The bytes the server sends and what the reader makes of them.
Raw(status, content, mode) ==
    ServerWire(mode, xorkey, auth_rid, ResponseBody(status, content))
Read(status, content, mode) ==
    ParseIn(a_impl, xorkey, Raw(status, content, mode), auth_rid)
ReadRecord(status, content, mode) ==
    LET r == Read(status, content, mode)
    IN [raw |-> Raw(status, content, mode), key |-> xorkey,
        id |-> r.id, body |-> r.body, state |-> r.state]

\* connect() ends with exception e raised by authenticate(): the socket is
\* closed only by the `except HLLAuthError` handler.
AuthFails(e) ==
    /\ auth_pc' = "failed"
    /\ auth_err' = e
    /\ IF CaughtAsAuthError(a_impl, e) /\ transport
       THEN /\ tstate' = TransportClose(tstate, FALSE)
            /\ closeCalls' = closeCalls + 1
            /\ transport' = FALSE
       ELSE UNCHANGED <<transport, tstate, closeCalls>>
\* The pending call, of the handshake or of the command, fails with e.
CallFails(e) ==
    IF auth_pc = "wait_cmd"
    THEN /\ cmd_result' = [kind |-> e, status |-> 0]
         /\ auth_pc' = "cmd_done"
         /\ UNCHANGED <<auth_err, transport, tstate, closeCalls>>
    ELSE AuthFails(e) /\ UNCHANGED cmd_result

\* self.xorkey = base64.b64decode(xorkey_resp.content_body)
SetXorKey(content) ==
    /\ xorkey' = KeyOf(content)
    /\ xorkey_sets' = xorkey_sets + 1
SetAuthTokenBlank(content) ==
    /\ auth_token' = <<>>
    /\ auth_token_sets' = auth_token_sets + 1
\* self.auth_token = auth_token_resp.content_body
SetAuthToken(content) ==
    /\ auth_token' = <<content>>
    /\ auth_token_sets' = auth_token_sets + 1

\* The AuthToken a request is built with.  RconProtocol.execute gives
\* self.auth_token to every RconRequest, and pack() writes `auth_token or
\* " "`; AsyncHLLRconV2 writes " " in _server_connect and _login and
\* self.auth_token in execute.  <<>> stands for no token.
RequestTokenNone(impl, name) == <<>>
RequestToken(impl, name) ==
    IF impl = "v2" /\ name # "Command" THEN <<>> ELSE auth_token

\* InitAuth: either implementation, before anything is sent.
InitAuth ==
    /\ InitSession
    /\ InitXorIdle
    /\ a_impl \in {"protocol", "v2"}
    /\ InitAuthIdle
    /\ InitLayersIdle

\* authenticate() / connect(): the ServerConnect request is written.
Auth_start ==
    /\ auth_pc = "idle"
    /\ tstate # "new"
    /\ IF a_impl = "protocol" /\ ~transport
       THEN /\ auth_pc' = "failed"
            /\ auth_err' = "HLLConnectionError"
            /\ UNCHANGED <<request_id_counter, auth_rid, auth_sent>>
       ELSE LET id == RequestIdFor(a_impl)
                content == IF a_impl = "protocol" THEN 0 ELSE 32
                body == RequestBody("ServerConnect",
                                    RequestToken(a_impl, "ServerConnect"),
                                    content)
            IN /\ request_id_counter' = CounterAfter(a_impl)
               /\ auth_rid' = id
               /\ auth_sent' = Append(auth_sent,
                                  SentRecord("ServerConnect", xorkey, id, body))
               /\ auth_pc' = "wait_sc"
               /\ UNCHANGED auth_err
    /\ UNCHANGED <<a_impl, xorkey, xorkey_sets, auth_token, auth_token_sets,
                   auth_rcvd, cmd_result>>
    /\ UNCHANGED <<callRest, sessVars, envVars, rconVars, xorVars, layerVars>>

\* The ServerConnect response is read: on 200 the key is installed and the
\* Login request is written at once; otherwise authenticate() raises.
Auth_server_connect_resp(status, content, mode) ==
    /\ auth_pc = "wait_sc" /\ tstate = "open" /\ ReaderReady
    /\ Read(status, content, mode).state = "ok"
    /\ auth_rcvd' = Append(auth_rcvd, ReadRecord(status, content, mode))
    /\ LET e == StatusError(a_impl, status) IN
       IF e # "none"
       THEN /\ AuthFails(e)
            /\ UNCHANGED <<xorkey, xorkey_sets, request_id_counter, auth_rid,
                           auth_sent>>
       ELSE LET key == KeyOf(content)
                id == RequestIdFor(a_impl)
                body == RequestBody("Login", RequestToken(a_impl, "Login"), 80)
            IN /\ SetXorKey(content)
               /\ request_id_counter' = CounterAfter(a_impl)
               /\ auth_rid' = id
               /\ auth_sent' = Append(auth_sent, SentRecord("Login", key, id, body))
               /\ auth_pc' = "wait_login"
               /\ UNCHANGED <<auth_err, transport, tstate, closeCalls>>
    /\ UNCHANGED <<a_impl, auth_token, auth_token_sets, cmd_result>>
    /\ UNCHANGED <<callRest, texc, sessRest, envVars, rconVars, xorVars, layerVars>>

\* The Login response is read: on 200 the token is installed and connect()
\* returns; otherwise authenticate() raises.
Auth_login_resp(status, content, mode) ==
    /\ auth_pc = "wait_login" /\ tstate = "open" /\ ReaderReady
    /\ Read(status, content, mode).state = "ok"
    /\ auth_rcvd' = Append(auth_rcvd, ReadRecord(status, content, mode))
    /\ LET e == StatusError(a_impl, status) IN
       IF e # "none"
       THEN AuthFails(e) /\ UNCHANGED <<auth_token, auth_token_sets>>
       ELSE /\ SetAuthToken(content)
            /\ auth_pc' = "done"
            /\ UNCHANGED <<auth_err, transport, tstate, closeCalls>>
    /\ UNCHANGED <<a_impl, xorkey, xorkey_sets, auth_rid, auth_sent, cmd_result>>
    /\ UNCHANGED <<callVars, texc, sessRest, envVars, rconVars, xorVars, layerVars>>

\* execute() of a command on the connected session: the request is written.
Cmd_send ==
    /\ auth_pc = "done"
    /\ IF a_impl = "protocol" /\ ~transport
       THEN /\ cmd_result' = [kind |-> "HLLConnectionError", status |-> 0]
            /\ auth_pc' = "cmd_done"
            /\ UNCHANGED <<request_id_counter, auth_rid, auth_sent>>
       ELSE LET id == RequestIdFor(a_impl)
                body == RequestBody("Command", RequestToken(a_impl, "Command"), 7)
            IN /\ request_id_counter' = CounterAfter(a_impl)
               /\ auth_rid' = id
               /\ auth_sent' = Append(auth_sent,
                                  SentRecord("Command", xorkey, id, body))
               /\ auth_pc' = "wait_cmd"
               /\ UNCHANGED cmd_result
    /\ UNCHANGED <<a_impl, xorkey, xorkey_sets, auth_token, auth_token_sets,
                   auth_err, auth_rcvd>>
    /\ UNCHANGED <<callRest, sessVars, envVars, rconVars, xorVars, layerVars>>

\* The response to the command is read and execute() ends: RconProtocol
\* returns the Response whatever its status, AsyncHLLRconV2 returns the
\* content on 200 and raises otherwise.
Cmd_resp(status, content, mode) ==
    /\ auth_pc = "wait_cmd" /\ tstate = "open" /\ ReaderReady
    /\ Read(status, content, mode).state = "ok"
    /\ auth_rcvd' = Append(auth_rcvd, ReadRecord(status, content, mode))
    /\ cmd_result' =
          IF a_impl = "protocol" THEN [kind |-> "Response", status |-> status]
          ELSE IF StatusError(a_impl, status) # "none"
               THEN [kind |-> StatusError(a_impl, status), status |-> status]
               ELSE [kind |-> "ContentBody", status |-> status]
    /\ auth_pc' = "cmd_done"
    /\ UNCHANGED <<a_impl, xorkey, xorkey_sets, auth_token, auth_token_sets,
                   auth_err, auth_rid, auth_sent>>
    /\ UNCHANGED <<callVars, sessVars, envVars, rconVars, xorVars, layerVars>>

\* The reader cannot hand the bytes to the pending call: the frame is
\* incomplete for it, or carries an id nobody waits for (the call stays
\* pending), or does not decode (RconProtocol: the exception leaves
\* data_received and the transport fails; AsyncHLLRconV2: it leaves the call).
Auth_misread(status, content, mode) ==
    /\ Awaiting /\ tstate = "open" /\ ReaderReady
    /\ Read(status, content, mode).state # "ok"
    /\ auth_rcvd' = Append(auth_rcvd, ReadRecord(status, content, mode))
    /\ IF Read(status, content, mode).state # "DecodeError"
       THEN UNCHANGED <<auth_pc, auth_err, cmd_result, transport, tstate,
                        closeCalls, texc>>
       ELSE IF a_impl = "protocol"
            THEN /\ tstate' = "closing" /\ texc' = TRUE
                 /\ UNCHANGED <<auth_pc, auth_err, cmd_result, transport, closeCalls>>
            ELSE CallFails("JSONDecodeError") /\ UNCHANGED texc
    /\ UNCHANGED <<a_impl, xorkey, xorkey_sets, auth_token, auth_token_sets,
                   auth_rid, auth_sent>>
    /\ UNCHANGED <<callVars, sessRest, envVars, rconVars, xorVars, layerVars>>

\* The deadline of wait_for passes for the pending call of RconProtocol
\* (AsyncHLLRconV2 has no deadline).
Auth_timeout ==
    /\ Awaiting /\ a_impl = "protocol" /\ TimeoutConfigured
    /\ CallFails("TimeoutError")
    /\ UNCHANGED <<a_impl, xorkey, xorkey_sets, auth_token, auth_token_sets,
                   auth_rid, auth_sent, auth_rcvd>>
    /\ UNCHANGED <<callVars, texc, sessRest, envVars, rconVars, xorVars, layerVars>>

\* The connection was lost while the call was pending.
Auth_lost ==
    /\ Awaiting /\ tstate = "closed"
    /\ CallFails(IF a_impl = "v2" THEN "IncompleteReadError"
                 ELSE IF texc THEN "HLLConnectionLostError" ELSE "CancelledError")
    /\ UNCHANGED <<a_impl, xorkey, xorkey_sets, auth_token, auth_token_sets,
                   auth_rid, auth_sent, auth_rcvd>>
    /\ UNCHANGED <<callVars, texc, sessRest, envVars, rconVars, xorVars, layerVars>>

NextAuth ==
    \/ connection_made
    \/ PeerError
    \/ connection_lost
    \/ Auth_start
    \/ \E s \in StatusCodes, c \in Contents, m \in ServerModes :
          Auth_server_connect_resp(s, c, m)
    \/ \E s \in StatusCodes, c \in Contents, m \in ServerModes :
          Auth_login_resp(s, c, m)
    \/ Cmd_send
    \/ \E s \in StatusCodes, c \in Contents, m \in ServerModes : Cmd_resp(s, c, m)
    \/ \E s \in StatusCodes, c \in Contents, m \in ServerModes :
          Auth_misread(s, c, m)
    \/ Auth_timeout
    \/ Auth_lost

SpecAuth == InitAuth /\ [][NextAuth]_vars


\* ---------------------------------------------------------------------
\* C13
\* ---------------------------------------------------------------------
\* The bytes of a received frame after deciphering all of them with the
\* key that was installed when they arrived.
Deciphered(r) == Protocol_xor(r.key, r.raw, 0)
HeaderEndian == IF a_impl = "protocol" THEN "<" ELSE "!"
\* C13: ServerConnect and its response travel in clear, and every byte of
\* every later frame, header and payload, is ciphered with the session key
\* in both directions: what is written is the ciphered request, and what is
\* parsed (the id of the header, the body) is read from the deciphered bytes.
C13_CipheredBothWays ==
    /\ \A i \in DOMAIN auth_sent :
          LET s == auth_sent[i]
              clear == IF a_impl = "protocol" THEN ProtocolPack(s.id, s.body)
                       ELSE s.body
          IN /\ s.name = "ServerConnect" => s.bytes = clear
             /\ Protocol_xor(s.key, s.bytes, 0) = clear
    /\ \A i \in DOMAIN auth_rcvd :
          LET r == auth_rcvd[i]
          IN /\ i = 1 => r.key = <<>>
             /\ r.id = Unpack32(HeaderEndian, SubSeq(Deciphered(r), 1, 4))
             /\ r.state = "ok" =>
                   r.body = SubSeq(Deciphered(r), HeaderLen + 1, Len(r.raw))


\* ---------------------------------------------------------------------
\* C15
\* ---------------------------------------------------------------------
LastRead == auth_rcvd'[Len(auth_rcvd')]
Connected == auth_pc \in {"done", "wait_cmd", "cmd_done"}
\* C15: the key and the token of a session are each assigned at most once,
\* the key from the ServerConnect response and then the token from the Login
\* response, both exactly once in a session that connected, and neither is
\* changed or cleared afterwards.
C15_SetOnce ==
    [][/\ xorkey_sets' <= 1 /\ auth_token_sets' <= 1
       /\ auth_token_sets' = 1 => xorkey_sets = 1
       /\ xorkey_sets = 1 => xorkey' = xorkey /\ xorkey_sets' = 1
       /\ auth_token_sets = 1 => auth_token' = auth_token /\ auth_token_sets' = 1
       /\ xorkey_sets = 0 =>
             IF xorkey_sets' = 1
             THEN /\ auth_pc = "wait_sc"
                  /\ LastRead.key = <<>>
                  /\ xorkey' = KeyOf(LastRead.body[3])
             ELSE xorkey' = <<>>
       /\ auth_token_sets = 0 =>
             IF auth_token_sets' = 1
             THEN /\ auth_pc = "wait_login"
                  /\ auth_token' = <<LastRead.body[3]>>
             ELSE auth_token' = <<>>
       /\ Connected' => xorkey_sets' = 1 /\ auth_token_sets' = 1]_vars
C15_Witness ==
    /\ auth_pc = "cmd_done"
    /\ xorkey_sets = 1 /\ xorkey = <<255>>
    /\ auth_token_sets = 1 /\ auth_token = <<3>>


\* ---------------------------------------------------------------------
\* C16
\* ---------------------------------------------------------------------
\* RconProtocol.is_connected()
IsConnected == transport /\ tstate = "open"
StatusOf(r) == r.body[1] * 256 + r.body[2]
\* connect() has ended on a Login response of status 401.
LoginRefused ==
    /\ auth_pc = "failed"
    /\ Len(auth_sent) = 2
    /\ Len(auth_rcvd) = 2
    /\ auth_rcvd[2].state = "ok"
    /\ StatusOf(auth_rcvd[2]) = 401
\* C16: when Login is answered with 401, connect fails with an auth error
\* and the socket is closed: the session is not connected and holds no token.
C16_Login401ClosesSocket ==
    LoginRefused =>
        /\ auth_err = "HLLAuthError"
        /\ ~IsConnected
        /\ closeCalls > 0
        /\ auth_token = <<>>


\* ---------------------------------------------------------------------
\* C17
\* ---------------------------------------------------------------------
\* execute() of a command has ended on the server's response to it.
CmdAnswered ==
    /\ auth_pc = "cmd_done"
    /\ Len(auth_rcvd) = 3
    /\ auth_rcvd[3].state = "ok"
\* What execute() hands back when it returns: the Response, or (as
\* AsyncHLLRconV2 does on 200) the content of the response.
Returned == {"Response", "ContentBody"}
\* C17: execute returns the response whatever its status code and raises on
\* no status; a status other than 200 becomes a command error only when the
\* caller calls raise_for_status() on the Response returned.
C17_ExecuteReturnsResponse ==
    CmdAnswered =>
        /\ cmd_result.kind \in Returned
        /\ cmd_result.status = StatusOf(auth_rcvd[3])
        /\ RaiseForStatus(cmd_result.status) = "HLLCommandError"
              <=> cmd_result.status # 200


\* ---------------------------------------------------------------------
\* C18
\* ---------------------------------------------------------------------
\* C18: a session is single-use: once it has been closed by disconnect() or
\* lost, it stays so, is_connected() is false in every later state, and no
\* operation on it makes it connected again.
C18_SingleUse ==
    [][LostOrClosed => /\ ~IsConnected
                       /\ LostOrClosed'
                       /\ ~IsConnected']_vars
\* A session lost with an error on which a later execute() was attempted
\* and a disconnect() was called.
C18_Witness ==
    /\ tstate = "closed" /\ texc /\ ~IsConnected
    /\ ndisc > 0
    /\ \E c \in Calls : outcome[c] = "HLLConnectionError"


\* ---------------------------------------------------------------------
\* C19
\* ---------------------------------------------------------------------
\* A step that is a call of _get_connection().
GetConnectionStep == \E v \in {"keep", "v1", "v2"} : Rcon_get_connection(v)
\* C19: the first get_connection() call starts the connect; a call made
\* while the connect is in progress starts no second one and awaits the same
\* future; a call made while the resulting session is connected starts no
\* second one and obtains that session.
C19_MemoisedConnect ==
    [][GetConnectionStep =>
          /\ (rcon_connection = "None" /\ nconnects = 0) =>
                /\ nconnects' = 1
                /\ rcon_ret' = [kind |-> "started", k |-> 1]
          /\ rcon_connection = "pending" =>
                /\ nconnects' = nconnects
                /\ rcon_connection' = "pending"
                /\ rcon_ret' = [kind |-> "joined", k |-> 0]
          /\ (rcon_connection = "result" /\ conn_state[rcon_held] = "open") =>
                /\ nconnects' = nconnects
                /\ rcon_held' = rcon_held
                /\ rcon_ret' = [kind |-> "returned", k |-> rcon_held]]_vars


\* ---------------------------------------------------------------------
\* C20
\* ---------------------------------------------------------------------
\* The facade holds a session that the peer has dropped.
HeldSessionLost ==
    /\ rcon_connection = "result"
    /\ conn_state[rcon_held] = "closed"
\* C20: once the facade's session is lost, the next get_connection() call
\* drops the cached future and starts a fresh connect, a new session, and
\* neither returns the lost session nor fails on it.
C20_ReconnectAfterLoss ==
    [][(GetConnectionStep /\ HeldSessionLost) =>
          /\ nconnects' = nconnects + 1
          /\ rcon_connection' = "pending"
          /\ conn_pc'[nconnects'] = "connecting"
          /\ rcon_ret' = [kind |-> "started", k |-> nconnects']]_vars


\* ---------------------------------------------------------------------
\* C21
\* ---------------------------------------------------------------------
\* The step in which connect attempt k ends with a failure.
ConnectFails(k) ==
    /\ conn_pc[k] = "connecting"
    /\ conn_pc'[k] = "done"
    /\ conn_state'[k] = "none"
\* C21: a failed connect attempt is not retried, and its failure is what
\* the caller that started it gets and what is set on the connect future
\* that attempt created (the pending future of attempt k), so that every
\* caller awaiting that future gets it too.
C21_FailurePropagates ==
    [][\A k \in Connects :
          ConnectFails(k) =>
             /\ FinishOutcome(rcon_connection, FALSE) = "ConnectError"
             /\ rcon_connection = "pending" /\ nconnects = k
             /\ rcon_connection' = "None"
             /\ nconnects' = nconnects
             /\ \A j \in Connects : j # k => conn_pc'[j] = conn_pc[j]]_vars

(* ======================= the pool and its workers ====================== *)
\* The callers inside worker w's connect() / execute().
Holders(w) ==
    {p \in Callers : pool.worker[p] = w /\ pool.pc[p] \in {"connecting", "executing"}}
\* Workers of the pool a caller can be given at once: connected, not busy.
IdleWorkers == {w \in pool.workers : ~pool.busy[w] /\ pool.sess[w] = "open"}

\* on_disconnect(): self.pool._workers.remove(self)
PoolAfterDisconnectKept(w) == pool.workers
PoolAfterDisconnect(w) == pool.workers \ {w}

\* A caller asks the pool for a worker and enters worker.connect(version):
\* an idle worker of the pool if there is one, else a new worker while the
\* pool is below max_workers, else the caller waits.  connect() sets _busy
\* and _get_connection() returns the cached session or starts the connect.
Pool_acquire(p, ver) ==
    /\ pool.pc[p] \in {"idle", "waiting"}
    /\ IF IdleWorkers # {}
       THEN \E w \in IdleWorkers :
               pool' = [pool EXCEPT !.busy[w] = TRUE,
                                    !.ver[p] = ver,
                                    !.pc[p] = "executing",
                                    !.worker[p] = w]
       ELSE IF Cardinality(pool.workers) < MaxWorkers
            THEN /\ pool.made < MaxWorkerObjs
                 /\ LET w == pool.made + 1 IN
                    pool' = [pool EXCEPT !.made = w,
                                         !.workers = @ \cup {w},
                                         !.busy[w] = TRUE,
                                         !.connection[w] = "pending",
                                         !.attempt[w] = "running",
                                         !.kind[w] = ver,
                                         !.ver[p] = ver,
                                         !.pc[p] = "connecting",
                                         !.worker[p] = w]
            ELSE /\ pool.pc[p] = "idle"
                 /\ pool' = [pool EXCEPT !.pc[p] = "waiting"]
    /\ UNCHANGED <<callVars, sessVars, envVars, rconVars, cipherVars, surfaceVars>>

\* The connect that worker w started ends.  With the future still pending:
\* set_result and the caller goes on to its command, or set_exception,
\* on_disconnect() and raise.  With the future cancelled by disconnect():
\* set_result / set_exception raise InvalidStateError, which leaves
\* _get_connection; a session that was built stays open, held by nobody.
\* In every failing case connect()'s finally clears _busy.
Worker_connect_finish(w, ok) ==
    /\ pool.attempt[w] = "running"
    /\ LET built == [pool EXCEPT !.attempt[w] = "done",
                                 !.sess[w] = IF ok THEN "open" ELSE "none"]
           resumed(to) == [p \in Callers |->
                             IF p \in Holders(w) THEN to ELSE pool.pc[p]]
       IN  IF pool.connection[w] = "pending" /\ ok
           THEN pool' = [built EXCEPT !.connection[w] = "result",
                                      !.pc = resumed("executing")]
           ELSE IF pool.connection[w] = "pending"
                THEN pool' = [built EXCEPT !.pc = resumed("done"),
                                           !.busy[w] = FALSE,
                                           !.connection[w] = "exception",
                                           !.disconnected[w] = TRUE,
                                           !.workers = PoolAfterDisconnect(w)]
                ELSE pool' = [built EXCEPT !.pc = resumed("done"),
                                           !.busy[w] = FALSE]
    /\ UNCHANGED <<callVars, sessVars, envVars, rconVars, cipherVars, surfaceVars>>

\* The caller's command on the session returns or raises; the with-block
\* of worker.execute is left and connect()'s finally clears _busy.
Worker_execute_done(p) ==
    /\ pool.pc[p] = "executing"
    /\ pool' = [pool EXCEPT !.pc[p] = "done",
                            !.busy[pool.worker[p]] = FALSE]
    /\ UNCHANGED <<callVars, sessVars, envVars, rconVars, cipherVars, surfaceVars>>

\* worker.disconnect(): close the session of a completed connect, or cancel
\* the pending future; then on_disconnect().
Worker_disconnect(w) ==
    /\ w \in 1..pool.made
    /\ ~pool.disconnected[w]
    /\ pool' = [pool EXCEPT
                  !.sess[w] = IF pool.connection[w] = "result" THEN "closed"
                              ELSE @,
                  !.connection[w] = IF @ = "pending" THEN "cancelled" ELSE @,
                  !.busy[w] = FALSE,
                  !.disconnected[w] = TRUE,
                  !.workers = PoolAfterDisconnect(w)]
    /\ UNCHANGED <<callVars, sessVars, envVars, rconVars, cipherVars, surfaceVars>>

\* The peer drops the session of worker w.  A v1 session was given the
\* worker's on_disconnect as its hook; a v2 session has no hook.
Worker_conn_lost(w) ==
    /\ pool.sess[w] = "open"
    /\ pool' = IF pool.kind[w] = "v1"
               THEN [pool EXCEPT !.sess[w] = "closed",
                                 !.busy[w] = FALSE,
                                 !.disconnected[w] = TRUE,
                                 !.workers = PoolAfterDisconnect(w)]
               ELSE [pool EXCEPT !.sess[w] = "closed"]
    /\ UNCHANGED <<callVars, sessVars, envVars, rconVars, cipherVars, surfaceVars>>

NextPool ==
    \/ \E p \in Callers, ver \in {"v1", "v2"} : Pool_acquire(p, ver)
    \/ \E w \in Workers, ok \in BOOLEAN : Worker_connect_finish(w, ok)
    \/ \E p \in Callers : Worker_execute_done(p)
    \/ \E w \in Workers : Worker_disconnect(w)
    \/ \E w \in Workers : Worker_conn_lost(w)

\* A pool with no worker yet and callers that have not started.
InitPooled ==
    /\ InitSession
    /\ InitXorIdle
    /\ a_impl = "protocol"
    /\ InitAuthIdle
    /\ InitSurfaceIdle
    /\ InitPool
SpecPool == InitPooled /\ [][NextPool]_vars

\* ---------------------------------------------------------------------
\* C22
\* ---------------------------------------------------------------------
\* C22: a worker's busy bit is true exactly when a caller is inside its
\* connect() / execute(), whatever happens to its connection meanwhile.
C22_BusyIffHeld ==
    \A w \in Workers : pool.busy[w] <=> Holders(w) # {}


\* ---------------------------------------------------------------------
\* C23
\* ---------------------------------------------------------------------
\* worker.is_connected()
WorkerConnected(w) == pool.connection[w] = "result" /\ pool.sess[w] = "open"
BusyWorkers == {w \in Workers : pool.busy[w]}
\* The sessions that exist: built by a connect and not closed.
OpenSessions == {w \in Workers : pool.sess[w] = "open"}
\* C24 (pool capacity): at any moment at most max_workers workers are busy,
\* the pool lists at most max_workers workers, and at most max_workers
\* sessions exist, however many callers submit.
C24_PoolCapacity ==
    /\ Cardinality(BusyWorkers) <= MaxWorkers
    /\ Cardinality(OpenSessions) <= MaxWorkers
    /\ Cardinality(pool.workers) <= MaxWorkers


(* ----------------------- command surface ------------------------------- *)
(* hllrcon/commands.py: the decorator factories and the operations of      *)
(* RconCommands, each of which branches on `version == 2`.                 *)

\* The square brackets of the return annotations of the two decorator
\* factories, in source order: 1 opens a bracket, -1 closes one.
ModelAnnotation == <<1, 1, 1, 1, -1, -1, -1, 1, 1, -1, -1, -1>>
BoolAnnotation == <<1, 1, 1, 1, -1, -1, 1, 1, -1, -1, -1>>
\* The nesting depth the parser is left at after the brackets.
RECURSIVE Depth(_)
Depth(brackets) ==
    IF brackets = <<>> THEN 0 ELSE brackets[1] + Depth(Tail(brackets))
\* Compiling the module: every annotation closes the brackets it opens, or
\* the import of hllrcon.commands raises SyntaxError and defines nothing.
Compiles == Depth(ModelAnnotation) = 0 /\ Depth(BoolAnnotation) = 0

\* The v1 branch of an operation that has no v1 command.
Unsupported == "NotImplementedError"
\* An operation: its decorator ("bool" with its status codes, "model", or
\* "none"), the command of its v2 branch and the command of its else branch.
Op(name, cast, codes, v2, v1) ==
    [name |-> name, cast |-> cast, codes |-> codes, v2 |-> v2, v1 |-> v1]
BoolOps ==
    { Op("kill_player", "bool", {500}, "PunishPlayer", "punish"),
      Op("kick_player", "bool", {400}, "KickPlayer", "kick"),
      Op("remove_temporary_ban", "bool", {400}, "RemoveTemporaryBan",
         "pardontempban"),
      Op("remove_permanent_ban", "bool", {400}, "RemovePermanentBan",
         "pardonpermaban") }
BothVersionOps ==
    { Op("add_admin", "none", {}, "AddAdmin", "adminadd"),
      Op("ban_player", "none", {}, "TemporaryBanPlayer", "tempban"),
      Op("broadcast", "none", {}, "ServerBroadcast", "broadcast"),
      Op("add_vip_player", "none", {}, "AddVipPlayer", "vipadd"),
      Op("get_players", "model", {}, "GetServerInformation", "get playerids") }
V2OnlyOps ==
    { Op("get_available_sector_names", "none", {}, "GetClientReferenceData",
         Unsupported),
      Op("set_sector_layout", "none", {}, "SetSectorLayout", Unsupported),
      Op("add_map_to_rotation", "none", {}, "AddMapToRotation", Unsupported),
      Op("remove_map_from_rotation", "none", {}, "RemoveMapFromRotation",
         Unsupported),
      Op("add_map_to_sequence", "none", {}, "AddMapToSequence", Unsupported),
      Op("remove_map_from_sequence", "none", {}, "RemoveMapFromSequence",
         Unsupported),
      Op("set_map_shuffle_enabled", "none", {}, "ShuffleMapSequence",
         Unsupported),
      Op("move_map_in_sequence", "none", {}, "MoveMapInSequence", Unsupported),
      Op("get_commands", "model", {}, "GetDisplayableCommands", Unsupported),
      Op("set_welcome_message", "none", {}, "SendServerMessage", Unsupported),
      Op("get_map_rotation", "model", {}, "GetServerInformation", Unsupported),
      Op("get_map_sequence", "model", {}, "GetServerInformation", Unsupported),
      Op("get_server_session", "model", {}, "GetServerInformation",
         Unsupported),
      Op("get_server_config", "model", {}, "GetServerInformation", Unsupported),
      Op("get_banned_words", "model", {}, "GetServerInformation", Unsupported),
      Op("get_command_details", "model", {}, "GetClientReferenceData",
         Unsupported),
      Op("message_player", "none", {}, "MessagePlayer", Unsupported),
      Op("set_vote_kick_threshold", "none", {}, "SetVoteKickThreshold",
         Unsupported),
      Op("set_match_timer", "none", {}, "SetMatchTimer", Unsupported),
      Op("remove_match_timer", "none", {}, "RemoveMatchTimer", Unsupported),
      Op("set_warmup_timer", "none", {}, "SetWarmupTimer", Unsupported),
      Op("remove_warmup_timer", "none", {}, "RemoveWarmupTimer", Unsupported),
      Op("set_dynamic_weather_toggle", "none", {}, "SetMapWeatherToggle",
         Unsupported) }
Operations == BoolOps \cup BothVersionOps \cup V2OnlyOps
Versions == {1, 2}

\* The undecorated body of an operation: `if version == 2:` executes the v2
\* command, `else:` executes the v1 command or raises NotImplementedError.
\* self.execute raises the HLLCommandError of a status that is not 200.
OpBody(op, version, status) ==
    IF version # 2 /\ op.v1 = Unsupported
    THEN [out |-> Unsupported, execs |-> <<>>]
    ELSE [out |-> IF RaiseForStatus(status) = "none" THEN "returned"
                  ELSE RaiseForStatus(status),
          execs |-> <<IF version = 2 THEN op.v2 ELSE op.v1>>]
\* wrapper of cast_response_to_bool(status_codes): True after the body
\* returned, False for an HLLCommandError whose status_code is in
\* status_codes, any other exception re-raised.
cast_response_to_bool(status_codes, body, status) ==
    IF body.out = "returned" THEN "True"
    ELSE IF body.out = "HLLCommandError" /\ status \in status_codes
    THEN "False"
    ELSE body.out
\* wrapper of cast_response_to_model: the body's result validated into the
\* model; an exception of the body passes through.
cast_response_to_model(body) == body.out
\* One call of an operation of the module as it is imported.
OpCall(op, version, status) ==
    IF ~Compiles THEN [out |-> "SyntaxError", execs |-> <<>>]
    ELSE LET body == OpBody(op, version, status)
         IN  [out |-> CASE op.cast = "bool" ->
                           cast_response_to_bool(op.codes, body, status)
                        [] op.cast = "model" -> cast_response_to_model(body)
                        [] OTHER -> body.out,
              execs |-> body.execs]

\* Every call of an operation with a version and a status the server gives.
InitOps ==
    /\ InitSession
    /\ InitXorIdle
    /\ a_impl = "protocol"
    /\ InitAuthIdle
    /\ InitPoolIdle
    /\ InitChunkIdle
    /\ InitDelegIdle
    /\ \E o \in Operations, v \in Versions, st \in StatusCodes :
          opcall = [call |-> o, version |-> v, status |-> st, pc |-> "called",
                    out |-> "none", execs |-> <<>>]

Op_call ==
    /\ opcall.pc = "called"
    /\ LET r == OpCall(opcall.call, opcall.version, opcall.status)
       IN  opcall' = [opcall EXCEPT !.pc = "done", !.out = r.out,
                                    !.execs = r.execs]
    /\ UNCHANGED <<callVars, sessVars, envVars, rconVars, cipherVars, poolVars,
                   chunkVars, delegVars>>

NextOps == Op_call
SpecOps == InitOps /\ [][NextOps]_vars

(* C25: an operation that declares a status set returns True when the      *)
(* request succeeds, False when the server's status is in the set, and     *)
(* raises HLLCommandError for every other status; an operation without a   *)
(* declaration never ends in a boolean.                                    *)
C25_BoolCast ==
    opcall.pc = "done" =>
        IF opcall.call.cast = "bool"
        THEN opcall.out = (CASE opcall.status = 200 -> "True"
                         [] opcall.status \in opcall.call.codes -> "False"
                         [] OTHER -> "HLLCommandError")
        ELSE opcall.out \notin {"True", "False"}

(* C26: a v2-only operation called with version 1 raises                   *)
(* NotImplementedError and hands no command to execute.                    *)
C26_V2OnlyRefusesV1 ==
    (opcall.pc = "done" /\ opcall.version = 1 /\ opcall.call \in V2OnlyOps) =>
        (opcall.out = Unsupported /\ opcall.execs = <<>>)


(* ----------------------- inbound byte stream --------------------------- *)
(* RconProtocol.data_received and _read_from_buffer over bytes: the server *)
(* sends the four bytes of the v1 XOR key and then frames; the transport   *)
(* hands the bytes over in chunks of any length.                           *)

\* The four bytes a server sends first on a connection.
V1XorKey == <<222, 173, 190, 239>>
\* The body of the i-th frame, len bytes long, and the frame on the wire:
\* header struct.pack("<II", id, len), then the body.  The i-th frame
\* answers the i-th request.
BodyOf(i, len) == [j \in 1..len |-> 64 + i]
FrameBytes(i, len) == Pack32("<", i) \o Pack32("<", len) \o BodyOf(i, len)
RECURSIVE FramesFrom(_, _)
FramesFrom(lens, i) ==
    IF i > Len(lens) THEN <<>>
    ELSE FrameBytes(i, lens[i]) \o FramesFrom(lens, i + 1)
Streams ==
    { V1XorKey \o FramesFrom(lens, 1) :
        lens \in UNION { [1..k -> 1..MaxBodyLen] : k \in 1..MaxStreamFrames } }

\* _read_from_buffer over st = [buf, out]: while the buffer holds a whole
\* frame, cut it off the buffer, decipher and unpack its body and hand the
\* packet out.
RECURSIVE ReadBytes(_)
ReadBytes(st) ==
    IF Len(st.buf) < HeaderLen THEN st
    ELSE
      LET pkt_id == Unpack32("<", SubSeq(st.buf, 1, 4))
          pkt_len == Unpack32("<", SubSeq(st.buf, 5, 8))
      IN  IF Len(st.buf) - HeaderLen < pkt_len THEN st
          ELSE
            LET pkt_size == HeaderLen + pkt_len
                pkt == [id |-> pkt_id,
                        body |-> Protocol_xor(<<>>,
                                    SubSeq(st.buf, HeaderLen + 1, pkt_size), 0),
                        raw |-> SubSeq(st.buf, 1, pkt_size)]
                st1 == [buf |-> SubSeq(st.buf, pkt_size + 1, Len(st.buf)),
                        out |-> Append(st.out, pkt)]
            IN  IF st1.buf # <<>> THEN ReadBytes(st1) ELSE st1

\* data_received(data) over st = [seen, buf, out, cut]: the first call cuts
\* data[:4] off, whatever the length of data, and returns when nothing is
\* left; otherwise data is appended to the buffer and the buffer is read.
DataReceived(st, data) ==
    LET strip == DO_POP_V1_XORKEY /\ ~st.seen
        kept == IF strip THEN SubSeq(data, 5, Len(data)) ELSE data
        cut == IF strip THEN SubSeq(data, 1, IF Len(data) < 4 THEN Len(data) ELSE 4)
               ELSE <<>>
    IN  IF strip /\ kept = <<>>
        THEN [st EXCEPT !.seen = TRUE, !.cut = st.cut \o cut]
        ELSE LET r == ReadBytes([buf |-> st.buf \o kept, out |-> st.out])
             IN  [seen |-> st.seen \/ strip, buf |-> r.buf, out |-> r.out,
                  cut |-> st.cut \o cut]

\* A new session and every stream a server may send it.
InitChunk ==
    /\ InitSession
    /\ InitXorIdle
    /\ a_impl = "protocol"
    /\ InitAuthIdle
    /\ InitPoolIdle
    /\ InitOpsIdle
    /\ InitDelegIdle
    /\ \E stream \in Streams :
          inbound = [stream |-> stream, pos |-> 0, seen |-> FALSE,
                     buffer |-> <<>>, delivered |-> <<>>, discarded |-> <<>>]

\* The transport calls data_received with the next n bytes of the stream.
Chunk_data_received(n) ==
    /\ n \in 1..(Len(inbound.stream) - inbound.pos)
    /\ LET r == DataReceived([seen |-> inbound.seen, buf |-> inbound.buffer,
                              out |-> inbound.delivered,
                              cut |-> inbound.discarded],
                             SubSeq(inbound.stream, inbound.pos + 1,
                                    inbound.pos + n))
       IN  inbound' = [inbound EXCEPT !.pos = inbound.pos + n,
                                      !.seen = r.seen, !.buffer = r.buf,
                                      !.delivered = r.out, !.discarded = r.cut]
    /\ UNCHANGED <<callVars, sessVars, envVars, rconVars, cipherVars, poolVars,
                   opVars, delegVars>>

NextChunk == \E n \in 1..Len(inbound.stream) : Chunk_data_received(n)
SpecChunk == InitChunk /\ [][NextChunk]_vars

\* The bytes the session has kept: those of the packets handed out and
\* those still in the buffer.
RECURSIVE RawOf(_)
RawOf(pkts) == IF pkts = <<>> THEN <<>> ELSE Head(pkts).raw \o RawOf(Tail(pkts))
Kept == RawOf(inbound.delivered) \o inbound.buffer

(* C27: once four bytes or more have been received, the session has       *)
(* discarded exactly the first four bytes of the connection and kept      *)
(* every later byte, however the stream was split into chunks.            *)
C27_StripsFirstFour ==
    inbound.pos >= 4 =>
        /\ inbound.discarded = SubSeq(inbound.stream, 1, 4)
        /\ Kept = SubSeq(inbound.stream, 5, inbound.pos)

\* The (request_id, Response) pairs of a sequence of packets.
Pairs(pkts) == [i \in 1..Len(pkts) |-> <<pkts[i].id, pkts[i].body>>]
\* The same bytes given to a new session in one data_received call.
InOneCall(data) ==
    DataReceived([seen |-> FALSE, buf |-> <<>>, out |-> <<>>, cut |-> <<>>],
                 data)
\* The buffer is shorter than a header or than the frame its header announces.
NoCompleteFrame(buf) ==
    IF Len(buf) < HeaderLen THEN TRUE
    ELSE Len(buf) - HeaderLen < Unpack32("<", SubSeq(buf, 5, 8))

(* C30: however the bytes received so far were split into data_received   *)
(* calls, the packets handed out are those one call with the same bytes   *)
(* hands out, and after each call the buffer holds no complete frame.     *)
C30_ChunkIndependent ==
    /\ Pairs(inbound.delivered) =
          Pairs(InOneCall(SubSeq(inbound.stream, 1, inbound.pos)).out)
    /\ NoCompleteFrame(inbound.buffer)


\* ---------------------------------------------------------------------
\* C28
\* ---------------------------------------------------------------------
\* The bytes are a v2 message of request id: struct.pack("<II", id, n)
\* followed by exactly n bytes of payload.
IsV2Message(bytes, id) ==
    IF Len(bytes) < HeaderLen THEN FALSE
    ELSE /\ SubSeq(bytes, 1, 4) = Pack32("<", id)
         /\ SubSeq(bytes, 5, 8) = Pack32("<", Len(bytes) - HeaderLen)
\* C28: every message a session writes and every message it accepts is an
\* 8-byte little-endian header <request_id, body_length> followed by exactly
\* body_length bytes of payload, the id being that of the request.  A
\* written message counts when it has this form in clear or after
\* deciphering with the installed key.
C28_HeaderFraming ==
    /\ \A i \in DOMAIN auth_sent :
          LET s == auth_sent[i]
          IN \/ IsV2Message(s.bytes, s.id)
             \/ IsV2Message(Protocol_xor(s.key, s.bytes, 0), s.id)
    /\ \A i \in DOMAIN auth_rcvd :
          LET r == auth_rcvd[i]
          IN r.state = "ok" =>
                \E j \in DOMAIN auth_sent : IsV2Message(r.raw, auth_sent[j].id)


\* ---------------------------------------------------------------------
\* C29
\* ---------------------------------------------------------------------
\* The AuthToken byte of a request that was written.
TokenSent(s) == s.body[1]
Space == 32
\* C29: the ServerConnect and Login requests carry a single space as
\* AuthToken, and every request written after Login carries the token the
\* Login response installed.
C29_TokenAttached ==
    \A i \in DOMAIN auth_sent :
        LET s == auth_sent[i]
        IN IF s.name \in {"ServerConnect", "Login"}
           THEN TokenSent(s) = Space
           ELSE auth_token # <<>> /\ TokenSent(s) = auth_token[1]
\* A connected session of either implementation has written a command.
C29_Witness ==
    /\ Len(auth_sent) = 3
    /\ auth_sent[3].name = "Command"
    /\ auth_token_sets = 1
    /\ TokenSent(auth_sent[3]) # Space

(* ==================== unmatched and malformed frames ==================== *)
\* The frames a data_received step hands to the read loop: what was in the
\* buffer and what the step takes off the wire, the key blob stripped.
Taken ==
    LET chunk == SubSeq(wire, 1, Len(wire) - Len(wire')) IN
    IF DO_POP_V1_XORKEY /\ ~seen_v1_xorkey THEN StripV1Key(chunk) ELSE chunk
Pending == buffer \o Taken
ReadStep == Len(wire') < Len(wire) /\ Pending # <<>>
\* The state the read loop leaves when it is run on the frames fs.
AfterReading(fs) ==
    ReadFromBuffer([buf |-> fs, w |-> waiters, fut |-> fut, fid |-> futId,
                    err |-> "none"])
ReaderLeaves(r) ==
    /\ buffer' = r.buf
    /\ waiters' = r.w
    /\ fut' = r.fut
    /\ futId' = r.fid
    /\ rerr' = r.err

\* C31: a complete frame whose id has no slot in the waiter table is dropped:
\* the read loop leaves the table and every future as they were, removes the
\* frame from the buffer and goes on with the frames behind it, so the step
\* ends exactly as if the frame had not been there.
C31_UnmatchedDropped ==
    [][(ReadStep /\ Head(Pending).id \notin DOMAIN waiters)
       => /\ ReaderLeaves(AfterReading(Tail(Pending)))
          /\ Len(buffer') < Len(Pending)]_vars

\* ---------------------------------------------------------------------
\* C32
\* ---------------------------------------------------------------------
\* The session of worker w stops being open in this step.
SessionEnds(w) == pool.sess[w] = "open" /\ pool'.sess[w] = "closed"
\* C32: when the session of a worker is lost, the worker's on_disconnect
\* runs: the worker is flagged disconnected and is no longer in the pool's
\* list, for a worker of either protocol version.
C32_LossEvicts ==
    [][\A w \in Workers :
          SessionEnds(w) => pool'.disconnected[w] /\ w \notin pool'.workers]_vars

\* ---------------------------------------------------------------------
\* C33
\* ---------------------------------------------------------------------
\* The handshake and the commands of one session in a process where other
\* sessions construct requests as well.
NextAuthShared ==
    \/ RconRequest_other
    \/ NextAuth
SpecAuthShared == InitAuth /\ [][NextAuthShared]_vars

\* C33: whatever other sessions of the process have sent, a session's
\* handshake sends ServerConnect with request id 1 and Login with request
\* id 2, and the ids of the session's requests increase in order of issue.
C33_HandshakeIds ==
    a_impl = "protocol" =>
        /\ \A i \in 1..Len(auth_sent) :
              /\ auth_sent[i].name = "ServerConnect" => auth_sent[i].id = 1
              /\ auth_sent[i].name = "Login" => auth_sent[i].id = 2
        /\ \A i, j \in 1..Len(auth_sent) :
              i < j => auth_sent[i].id < auth_sent[j].id

\* ---------------------------------------------------------------------
\* C34
\* ---------------------------------------------------------------------
\* The server sends a frame for a request it has received, well-formed or
\* not, whatever it has sent before: frames can follow a malformed one.
ServerSends(i, good) ==
    /\ tstate = "open"
    /\ nframes < MaxFrames
    /\ i \in Written
    /\ wire' = Append(wire, Frame(i, good))
    /\ nframes' = nframes + 1
    /\ UNCHANGED <<callVars, sessVars, ndisc>>
    /\ UNCHANGED <<rconVars, cipherVars, layerVars>>

NextFrames ==
    \/ connection_made
    \/ execute
    \/ \E c \in Calls : execute_resume(c)
    \/ \E n \in 1..(MaxFrames + 1) : data_received(n)
    \/ connection_lost
    \/ \E i \in Ids, good \in BOOLEAN : ServerSends(i, good)
SpecFrames == Init /\ [][NextFrames]_vars

\* A well-formed frame for the pending request of call c lies behind the
\* first frame the read loop is given.
AnsweredBehind(c) ==
    /\ fut[c] = "pending"
    /\ rid[c] \in DOMAIN waiters
    /\ \E i \in 2..Len(Pending) : Pending[i].ok /\ Pending[i].id = rid[c]
\* C34: when the read loop meets a complete frame whose payload does not
\* unpack, the failure is a malformed-frame error (HLLMessageError), the frame
\* is removed from the buffer, and the well-formed frames behind it are
\* still delivered to their waiters.
C34_MalformedSkipped ==
    [][(ReadStep /\ ~Head(Pending).ok)
       => /\ rerr' = "HLLMessageError"
          /\ Len(buffer') < Len(Pending)
          /\ \A c \in Calls : AnsweredBehind(c) => fut'[c] = "result"]_vars

\* ---------------------------------------------------------------------
\* C35
\* ---------------------------------------------------------------------
\* Connect attempt k of the facade ends in this step, after a disconnect()
\* that was called while it was in progress: the future it created is no
\* longer the one the facade holds.
AbandonedEnds(k) ==
    /\ conn_pc[k] = "connecting"
    /\ conn_pc'[k] = "done"
    /\ (rcon_connection # "pending" \/ nconnects # k)
\* The connect of worker w ends in this step, after worker.disconnect()
\* cancelled its pending future.
WorkerAbandonedEnds(w) ==
    /\ pool' # pool
    /\ pool.attempt[w] = "running"
    /\ pool'.attempt[w] = "done"
    /\ pool.connection[w] = "cancelled"
\* C35: a connect that was in progress when disconnect() was called leaves
\* nothing behind when it ends: the socket it opened is not open, the
\* facade or worker caches no session of it, and its caller gets a
\* cancellation or the connection error, not an internal error.
C35_AbandonedConnect ==
    [][/\ \A k \in Connects :
             AbandonedEnds(k) =>
                /\ conn_state'[k] # "open"
                /\ rcon_held' # k
                /\ FinishOutcome(rcon_connection, conn_state'[k] = "open")
                      \in {"ConnectError", "CancelledError"}
       /\ \A w \in Workers :
             WorkerAbandonedEnds(w) =>
                /\ pool'.sess[w] # "open"
                /\ pool'.connection[w] # "result"]_vars

\* ---------------------------------------------------------------------
\* C36
\* ---------------------------------------------------------------------
\* The kind of session the facade's _get_connection hands to its caller in
\* this step: the cached one, the one of the pending connect it joins, or
\* the one of the connect it starts.
HandedKind ==
    CASE rcon_ret'.kind = "returned" -> conn_kind[rcon_ret'.k]
      [] rcon_ret'.kind = "joined" -> conn_kind[nconnects]
      [] rcon_ret'.kind = "started" -> conn_kind'[rcon_ret'.k]
      [] OTHER -> "none"
\* Caller p is inside worker.execute(command, version) in the next state.
Serving(p) == pool' # pool /\ pool'.pc[p] \in {"connecting", "executing"}
\* C36: an execute(command, version=v) on a facade or a worker is carried
\* out on a session of protocol version v, never on a cached session of the
\* other version.
C36_VersionHonoured ==
    [][/\ \A v \in {"v1", "v2"} :
             Rcon_get_connection(v) => HandedKind \in {v, "none"}
       /\ \A p \in Callers :
             Serving(p) => pool'.kind[pool'.worker[p]] = pool'.ver[p]]_vars

(* ---------------- execute through the facade and a worker -------------- *)
\* Bodies a caller gives to execute(): a string, or a mapping, written here
\* by the text its JSON form has between the braces.
Chars == {65, 66}
Texts == UNION {[1..n -> Chars] : n \in 0..MaxTextLen}
StrBody(t) == [type |-> "str", val |-> t]
DictBody(t) == [type |-> "dict", val |-> t]
Bodies == {StrBody(t) : t \in Texts} \cup {DictBody(t) : t \in Texts}
CommandNames == {"GetServerInformation", "Get"}
\* json.dumps(body) of a mapping: a string, the text within braces.
JsonDumps(b) == StrBody(<<123>> \o b.val \o <<125>>)
\* The names bound in rcon.py: asyncio, the typing names, the session
\* classes.  json is not imported there.
JsonImported == FALSE

\* AsyncHLLRconV2.execute(name, content_body): the request it writes.
AsyncHLLRconV2_execute(name, content_body) ==
    LET cb == IF content_body.type = "dict" THEN JsonDumps(content_body)
              ELSE content_body
    IN  [out |-> "sent", sent |-> <<[name |-> name, body |-> cb]>>]
\* execute of the version 1 session: RconRequest.pack writes a string body
\* as it is and a mapping as its JSON text.
RconConnection_execute(command, body) ==
    LET cb == IF body.type = "dict" THEN JsonDumps(body) ELSE body
    IN  [out |-> "sent", sent |-> <<[name |-> command, body |-> cb]>>]
\* The body a session's execute takes when the caller passes none.
DefaultBody == StrBody(<<>>)

\* Rcon.execute(command, version, body), on a session of that version.
Rcon_execute(command, version, body) ==
    IF version = 2
    THEN IF body.type = "dict"
         THEN IF JsonImported
              THEN AsyncHLLRconV2_execute(command, JsonDumps(body))
              ELSE [out |-> "NameError", sent |-> <<>>]
         ELSE AsyncHLLRconV2_execute(command, body)
    ELSE RconConnection_execute(command, DefaultBody)   \* execute(command)
\* PooledRconWorker.execute(command, version, body), on a session of that
\* version: connection.execute(command, version, body).  AsyncHLLRconV2's
\* execute takes a name and a body, so the third argument is one too many.
Worker_execute(command, version, body) ==
    IF version = 2
    THEN [out |-> "TypeError", sent |-> <<>>]
    ELSE RconConnection_execute(command, body)

\* Every execute call: object, command, version and body.
InitHandoff ==
    /\ InitSession
    /\ InitXorIdle
    /\ a_impl = "protocol"
    /\ InitAuthIdle
    /\ InitPoolIdle
    /\ InitOpsIdle
    /\ InitChunkIdle
    /\ InitOverlapIdle
    /\ \E via \in {"Rcon", "worker"}, c \in CommandNames, v \in Versions,
          b \in Bodies :
          handoff = [via |-> via, command |-> c, version |-> v, body |-> b,
                     pc |-> "called", out |-> "none", sent |-> <<>>]

Handoff_execute ==
    /\ handoff.pc = "called"
    /\ LET r == IF handoff.via = "Rcon"
                THEN Rcon_execute(handoff.command, handoff.version, handoff.body)
                ELSE Worker_execute(handoff.command, handoff.version,
                                    handoff.body)
       IN  handoff' = [handoff EXCEPT !.pc = "done", !.out = r.out,
                                      !.sent = r.sent]
    /\ UNCHANGED <<callVars, sessVars, envVars, rconVars, cipherVars, poolVars,
                   opVars, chunkVars, v2sess>>

NextHandoff == Handoff_execute
SpecHandoff == InitHandoff /\ [][NextHandoff]_vars

\* The body of the caller as a request carries it: a string as it is, a
\* mapping as its JSON text.
Carried(b) == IF b.type = "dict" THEN JsonDumps(b) ELSE b
\* C37: execute(command, version, body) on the facade and on a worker hands
\* the command name and the body to the session unchanged, for version 1 and
\* version 2, for string and mapping bodies: one request is written and it
\* carries the caller's command and the caller's body.
C37_BodyHandedOver ==
    handoff.pc = "done" =>
        /\ handoff.out = "sent"
        /\ handoff.sent = <<[name |-> handoff.command,
                             body |-> Carried(handoff.body)]>>

\* ---------------------------------------------------------------------
\* C38
\* ---------------------------------------------------------------------
\* The first frame the read loop is given in this step answers the request
\* of call c, which is written and awaited.
AnswersInFlight(c) == ReadStep /\ Head(Pending).id = rid[c] /\ InFlight(c)
\* C38: execute() registers the waiter of a request in the same run as it
\* writes the request, so whenever the reader processes the response to a
\* request that is still awaited, the slot of that request is in the table:
\* a well-formed response is delivered to it and is never dropped as
\* unmatched for having come too early.
C38_SlotBeforeResponse ==
    [][\A c \in Calls :
          AnswersInFlight(c) =>
             /\ rid[c] \in DOMAIN waiters
             /\ waiters[rid[c]] = c
             /\ Head(Pending).ok => (fut'[c] = "result" /\ futId'[c] = rid[c])]_vars
\* The responses to two requests written back to back have both been
\* delivered to their own waiters before either caller has resumed.
C38_Witness ==
    \E c, d \in Calls :
       /\ c # d
       /\ pc[c] = "awaiting" /\ fut[c] = "result" /\ futId[c] = rid[c]
       /\ pc[d] = "awaiting" /\ fut[d] = "result" /\ futId[d] = rid[d]

(* ------------- overlapping calls on one AsyncHLLRconV2 session --------- *)
Overlappers == 1..MaxOverlap

\* StreamReader.readexactly as called by _receive_response for caller p,
\* who is at its header read or at its body read (ph).  With data in the
\* buffer the read takes the next item at once, whatever it is: a caller
\* that has read a header goes on to the body in the same run.  With an
\* empty buffer the call waits, unless another coroutine is already
\* waiting: then _wait_for_data raises RuntimeError.
RECURSIVE ReceiveResponse(_, _, _)
ReceiveResponse(s, p, ph) ==
    IF s.rbuf # <<>>
    THEN LET tok == Head(s.rbuf)
             s1 == [s EXCEPT !.rbuf = Tail(s.rbuf)]
         IN  IF tok.kind # ph
             THEN \* bytes of a body unpacked as a header, or the reverse
                  [s1 EXCEPT !.pc[p] = "done", !.out[p] = "misread"]
             ELSE IF ph = "header"
                  THEN ReceiveResponse([s1 EXCEPT !.hdr[p] = tok.of], p, "body")
                  ELSE [s1 EXCEPT !.pc[p] = "done", !.out[p] = "returned",
                                  !.got[p] = tok.of]
    ELSE IF s.waiter # 0
         THEN [s EXCEPT !.pc[p] = "done", !.out[p] = "RuntimeError"]
         ELSE [s EXCEPT !.waiter = p,
                        !.pc[p] = IF ph = "header" THEN "wait_header"
                                  ELSE "wait_body"]

\* A session that is connected and logged in, and callers about to call
\* execute() on the facade that holds it.
InitOverlap ==
    /\ InitSession
    /\ InitXorIdle
    /\ a_impl = "v2"
    /\ InitAuthIdle
    /\ InitPoolIdle
    /\ InitOpsIdle
    /\ InitChunkIdle
    /\ InitHandoffIdle
    /\ v2sess = [sent |-> <<>>, fed |-> 0, rbuf |-> <<>>, waiter |-> 0,
                 pc |-> [p \in Overlappers |-> "idle"],
                 hdr |-> [p \in Overlappers |-> 0],
                 got |-> [p \in Overlappers |-> 0],
                 out |-> [p \in Overlappers |-> "none"]]

\* Rcon.execute(command, 2, body) of caller p: no lock is taken; the session's
\* execute writes the request (drain() returns at once on a transport that
\* is not paused) and calls _receive_response.
V2_execute(p) ==
    /\ v2sess.pc[p] = "idle"
    /\ v2sess' = ReceiveResponse([v2sess EXCEPT !.sent = Append(@, p)], p,
                                 "header")
    /\ UNCHANGED <<callVars, sessVars, envVars, rconVars, cipherVars, poolVars,
                   opVars, chunkVars, handoff>>

\* The server answers the requests in the order it got them; the transport
\* feeds the reader the header of the next response, or the body that
\* follows the header fed last.  feed_data wakes the waiting coroutine and
\* clears _waiter; the coroutine runs in a later turn of the loop.
V2_feed_data ==
    /\ v2sess.fed < 2 * Len(v2sess.sent)
    /\ LET of == v2sess.sent[(v2sess.fed \div 2) + 1]
           kind == IF v2sess.fed % 2 = 0 THEN "header" ELSE "body"
           w == v2sess.waiter
           fed == [v2sess EXCEPT !.fed = @ + 1,
                                 !.rbuf = Append(@, [kind |-> kind, of |-> of]),
                                 !.waiter = 0]
       IN  v2sess' = IF w = 0 THEN fed
                     ELSE [fed EXCEPT !.pc[w] = IF @ = "wait_header"
                                                THEN "woken_header"
                                                ELSE "woken_body"]
    /\ UNCHANGED <<callVars, sessVars, envVars, rconVars, cipherVars, poolVars,
                   opVars, chunkVars, handoff>>

\* A woken caller runs again: readexactly looks at the buffer anew.
V2_resume(p) ==
    /\ v2sess.pc[p] \in {"woken_header", "woken_body"}
    /\ v2sess' = ReceiveResponse(v2sess, p,
                                 IF v2sess.pc[p] = "woken_header" THEN "header"
                                 ELSE "body")
    /\ UNCHANGED <<callVars, sessVars, envVars, rconVars, cipherVars, poolVars,
                   opVars, chunkVars, handoff>>

NextOverlap ==
    \/ \E p \in Overlappers : V2_execute(p)
    \/ V2_feed_data
    \/ \E p \in Overlappers : V2_resume(p)
SpecOverlap == InitOverlap /\ [][NextOverlap]_vars

\* C39: on one AsyncHLLRconV2 session used through the facade, every execute
\* call that ends returns the content of the response to its own request,
\* also when calls overlap: the header and the body it read are both those
\* of its own response.
C39_OwnResponse ==
    \A p \in Overlappers :
       v2sess.pc[p] = "done" =>
          /\ v2sess.out[p] = "returned"
          /\ v2sess.hdr[p] = p
          /\ v2sess.got[p] = p

====
